---- MODULE Spec2Model ----
(***************************************************************************)
(* ContentCraft.ai: the authentication core.  The in-memory fixed-window   *)
(* rate limiter (lib/auth/rate-limit), the auth route handlers (register,  *)
(* login, forgot-password, reset-password, send-otp, verify-otp) over the   *)
(* user and session tables, the token issuer and verifier and the          *)
(* encryption of stored API keys (lib/auth/jwt), the api-keys routes, and   *)
(* the dashboard page with its logout.                                     *)
(*                                                                         *)
(* Time is Date.now() in milliseconds.  The specifications:                *)
(*   SpecRL       the rate limiter alone, with an arbitrary fixed config   *)
(*   SpecLogin    register and login                                       *)
(*   SpecReset    forgot-password and reset-password                       *)
(*   SpecSession  login, password reset, logout and the use of the tokens  *)
(*   SpecOtp      send-otp and verify-otp, beside the password reset       *)
(*   SpecJwt      the token functions, for every setting of the secrets    *)
(*   SpecAes      encrypt and decrypt                                      *)
(*   SpecTamper   decrypt and getOpenAIClient on a changed payload         *)
(*   SpecOtpGen   generateOTP over every draw of randomInt                 *)
(*   SpecClient   the client identifier, from the proxy headers            *)
(*   SpecApiKeys  add, update and delete of stored API keys                *)
(*   SpecRegister registrations alone                                      *)
(*   SpecDashboard(Fair)  the dashboard page: load, redirect, logout       *)
(*   SpecKeys     all six routes under one client's exhausted login limit  *)
(*   SpecVerify   verify-otp, past its limit and past the code's life      *)
(* A route handler is a process that yields at its awaits.                 *)
(***************************************************************************)
EXTENDS Integers, Sequences, FiniteSets, TLC

VARIABLES
    now,          \* Date.now()
    store,        \* rate-limit.ts `store`: identifier -> {count, resetTime}
    cfg,          \* SpecRL: the RateLimitConfig every call is made with
    rlLast,       \* the last checkRateLimit call: key, time, record before/after, result
    rlWin,        \* history: per key, the window the calls so far opened, and its calls
    rlAllowedAt,  \* history (SpecRL): per key, the times of the allowed calls still in reach
    ticks,        \* Spec: how often the clock has advanced
    users,        \* prisma.user: the rows in creation order (id = position)
    tenants,      \* prisma.tenant and prisma.tenantMember rows
    sessions,     \* prisma.session: the set of rows
    nextToken,    \* Spec: the reset tokens generateResetToken() has produced so far
    procs,        \* the requests in flight, one record per handler invocation
    done,         \* the request the last step completed, with its response (or NoDone)
    budget,       \* per route, how many more requests the model sends
    env,          \* process.env: the signing secrets ("" when not set)
    page,         \* the browser tab: its route, what the dashboard shows, its redirect timer
    userApiKey,   \* prisma.userApiKey: the rows, and how many were created and requested
    aes,          \* SpecAes: a plaintext, what encrypt made of it, what decrypt returned
    localStorage, \* the browser's localStorage: accessToken and refreshToken
    verified,     \* the token verification the last step made (or NoVerify)
    hist          \* history: what was issued, used and revoked so far

rlVars == <<now, store, cfg, rlLast, rlWin, rlAllowedAt>>
dbVars == <<users, tenants, sessions>>
tokVars == <<env, localStorage, aes, userApiKey, page>>
hVars == <<ticks, users, tenants, sessions, nextToken, procs, done, budget,
           env, localStorage, aes, userApiKey, page, verified, hist>>
vars == <<now, store, cfg, rlLast, rlWin, rlAllowedAt,
          ticks, users, tenants, sessions, nextToken, procs, done, budget,
          env, localStorage, aes, userApiKey, page, verified, hist>>

----------------------------------------------------------------------------
(* Bounds *)

MaxNowRL == 6          \* SpecRL: the clock stops here
MaxCount == 4          \* SpecRL: no further call on a key whose count reached this
MaxWindowMs == 2       \* SpecRL: configs have windowMs in 1..MaxWindowMs
MaxMaxRequests == 2    \* SpecRL: configs have maxRequests in 0..MaxMaxRequests

----------------------------------------------------------------------------
(* Rate limiter: src/unnamed/part_011 (lib/auth/rate-limit.ts) *)

Actions == {"login", "register", "forgot-password", "reset-password",
            "send-otp", "verify-otp"}
Clients == {"c1", "c2", "c3", "unknown"}

\* `${action}:${clientId}`
Keys == Actions \X Clients

\* store[identifier] === undefined
NoRecord == [count |-> 0, resetTime |-> -1]

NoCall == [key |-> <<"none", "none">>, at |-> -1, before |-> NoRecord, after |-> NoRecord,
           config |-> [windowMs |-> 0, maxRequests |-> 0],
           result |-> [allowed |-> FALSE, remaining |-> 0, resetTime |-> -1]]

NoWindow == [start |-> -1, calls |-> 0, allowed |-> 0]

\* checkRateLimit with the limit test off by one (count >= maxRequests)
checkRateLimit_OffByOne(st, identifier, config, t) ==
    LET record == st[identifier] IN
    IF record = NoRecord \/ t > record.resetTime
    THEN [store  |-> [st EXCEPT ![identifier] =
                         [count |-> 1, resetTime |-> t + config.windowMs]],
          result |-> [allowed   |-> TRUE,
                      remaining |-> config.maxRequests - 1,
                      resetTime |-> t + config.windowMs]]
    ELSE LET count == record.count + 1
             st2   == [st EXCEPT ![identifier].count = count] IN
         IF count >= config.maxRequests
         THEN [store  |-> st2,
               result |-> [allowed |-> FALSE, remaining |-> 0,
                           resetTime |-> record.resetTime]]
         ELSE [store  |-> st2,
               result |-> [allowed   |-> TRUE,
                           remaining |-> config.maxRequests - count,
                           resetTime |-> record.resetTime]]

\* checkRateLimit where a denied call pushes the window's end forward
checkRateLimit_DenyExtends(st, identifier, config, t) ==
    LET record == st[identifier] IN
    IF record = NoRecord \/ t > record.resetTime
    THEN [store  |-> [st EXCEPT ![identifier] =
                         [count |-> 1, resetTime |-> t + config.windowMs]],
          result |-> [allowed   |-> TRUE,
                      remaining |-> config.maxRequests - 1,
                      resetTime |-> t + config.windowMs]]
    ELSE LET count == record.count + 1
             st2   == [st EXCEPT ![identifier].count = count] IN
         IF count > config.maxRequests
         THEN [store  |-> [st2 EXCEPT ![identifier].resetTime = t + config.windowMs],
               result |-> [allowed |-> FALSE, remaining |-> 0,
                           resetTime |-> t + config.windowMs]]
         ELSE [store  |-> st2,
               result |-> [allowed   |-> TRUE,
                           remaining |-> config.maxRequests - count,
                           resetTime |-> record.resetTime]]

\* checkRateLimit that restarts the window already at now = resetTime
checkRateLimit_RestartAtReset(st, identifier, config, t) ==
    LET record == st[identifier] IN
    IF record = NoRecord \/ t >= record.resetTime
    THEN [store  |-> [st EXCEPT ![identifier] =
                         [count |-> 1, resetTime |-> t + config.windowMs]],
          result |-> [allowed   |-> TRUE,
                      remaining |-> config.maxRequests - 1,
                      resetTime |-> t + config.windowMs]]
    ELSE LET count == record.count + 1
             st2   == [st EXCEPT ![identifier].count = count] IN
         IF count > config.maxRequests
         THEN [store  |-> st2,
               result |-> [allowed |-> FALSE, remaining |-> 0,
                           resetTime |-> record.resetTime]]
         ELSE [store  |-> st2,
               result |-> [allowed   |-> TRUE,
                           remaining |-> config.maxRequests - count,
                           resetTime |-> record.resetTime]]

\* checkRateLimit whose increment inside a window is not written back
checkRateLimit_LostUpdate(st, identifier, config, t) ==
    LET record == st[identifier] IN
    IF record = NoRecord \/ t > record.resetTime
    THEN [store  |-> [st EXCEPT ![identifier] =
                         [count |-> 1, resetTime |-> t + config.windowMs]],
          result |-> [allowed   |-> TRUE,
                      remaining |-> config.maxRequests - 1,
                      resetTime |-> t + config.windowMs]]
    ELSE LET count == record.count + 1 IN
         IF count > config.maxRequests
         THEN [store  |-> st,
               result |-> [allowed |-> FALSE, remaining |-> 0,
                           resetTime |-> record.resetTime]]
         ELSE [store  |-> st,
               result |-> [allowed   |-> TRUE,
                           remaining |-> config.maxRequests - count,
                           resetTime |-> record.resetTime]]

\* checkRateLimit(identifier, config) run at Date.now() = t on store st:
\* the store it leaves and the value it returns.
checkRateLimit(st, identifier, config, t) ==
    LET record == st[identifier] IN
    IF record = NoRecord \/ t > record.resetTime
    THEN [store  |-> [st EXCEPT ![identifier] =
                         [count |-> 1, resetTime |-> t + config.windowMs]],
          result |-> [allowed   |-> TRUE,
                      remaining |-> config.maxRequests - 1,
                      resetTime |-> t + config.windowMs]]
    ELSE LET count == record.count + 1
             st2   == [st EXCEPT ![identifier].count = count] IN
         IF count > config.maxRequests
         THEN [store  |-> st2,
               result |-> [allowed |-> FALSE, remaining |-> 0,
                           resetTime |-> record.resetTime]]
         ELSE [store  |-> st2,
               result |-> [allowed   |-> TRUE,
                           remaining |-> config.maxRequests - count,
                           resetTime |-> record.resetTime]]

\* cleanupExpiredRecords that also deletes the entries whose window ends now
cleanupExpiredRecords_Inclusive(st, t) ==
    [k \in DOMAIN st |->
        IF st[k] # NoRecord /\ st[k].resetTime <= t THEN NoRecord ELSE st[k]]

\* cleanupExpiredRecords() run at Date.now() = t
cleanupExpiredRecords(st, t) ==
    [k \in DOMAIN st |->
        IF st[k] # NoRecord /\ st[k].resetTime < t THEN NoRecord ELSE st[k]]

\* History kept beside a call: the window as a caller sees it.  A call opens a
\* window when none was opened for the key or the open one ended before t.
WindowAfter(w, config, t, allowed) ==
    IF w = NoWindow \/ t > w.start + config.windowMs
    THEN [start |-> t, calls |-> 1, allowed |-> IF allowed THEN 1 ELSE 0]
    ELSE [w EXCEPT !.calls = @ + 1,
                   !.allowed = @ + (IF allowed THEN 1 ELSE 0)]

\* RateLimitCall that keeps one entry per client, whatever the action
RateLimitCall_PerClient(k, config) ==
    LET r == checkRateLimit(store, <<"login", k[2]>>, config, now) IN
    /\ store' = r.store
    /\ rlWin' = [rlWin EXCEPT ![k] = WindowAfter(@, config, now, r.result.allowed)]

\* One synchronous checkRateLimit call and the bookkeeping about it.
RateLimitCall(k, config) ==
    LET r == checkRateLimit(store, k, config, now) IN
    /\ store' = r.store
    /\ rlWin' = [rlWin EXCEPT ![k] = WindowAfter(@, config, now, r.result.allowed)]

----------------------------------------------------------------------------
(* Requests and tables *)

Procs == {"p1", "p2"}

NullTime == -1      \* a null DateTime column
NoToken == 0        \* a null resetToken column; issued reset tokens are 1, 2, ...
NoHash == "none"

\* A string that may carry whitespace around its text: the text as its
\* characters, and the number of leading and trailing blanks.
Str(text) == [text |-> text, lead |-> 0, trail |-> 0]
\* a null (or empty) emailVerificationOTP column
NoOtp == Str(<<>>)

\* a user row, with the defaults of its columns
NoUser == [id |-> 0, email |-> "none", passwordHash |-> NoHash, lastLoginAt |-> NullTime,
           resetToken |-> NoToken, resetTokenExpiresAt |-> NullTime,
           emailVerified |-> FALSE, emailVerificationOTP |-> NoOtp,
           otpExpiresAt |-> NullTime]

NoJwt == [kind |-> "none", secret |-> "none", userId |-> 0, email |-> "none",
          iat |-> 0, exp |-> 0]
NoTokens == [accessToken |-> NoJwt, refreshToken |-> NoJwt]

NoBody == [json |-> FALSE, email |-> "none", password |-> "none", token |-> NoToken,
           otp |-> NoOtp]
NoResp == [status |-> 0, text |-> "none"]

\* Request headers: "" is an absent (or empty) header; x-forwarded-for is its
\* comma-separated entries, each with the whitespace around it.
NoHeaders == [cf |-> "", realIp |-> "", forwarded |-> <<>>]

\* An api-keys request: the token of its Authorization header (NoJwt: no Bearer
\* header), whether its body is JSON, the [id] of its path, and the fields of
\* its body ("none", "absent": not given); userId: the payload.userId its token
\* verified to.
NoKeyReq == [bearer |-> NoJwt, json |-> FALSE, id |-> 0, provider |-> "none",
             apiKey |-> <<>>, label |-> "none", isValid |-> "absent", userId |-> 0]

\* pc: where the handler stands; headers, body, key: the request; user: the row its query
\* returned; newToken/newOtp/newExpiry: the reset token or code it generated
\* and its expiry; tokens: the pair it
\* issued; resp: the response it returned; slot: its place among the calls of
\* its rate-limit window.
IdleProc == [pc |-> "idle", handler |-> "none", client |-> "none",
             headers |-> NoHeaders, body |-> NoBody, key |-> NoKeyReq,
             user |-> NoUser, newToken |-> NoToken, newOtp |-> NoOtp,
             newExpiry |-> NullTime,
             tokens |-> NoTokens, resp |-> NoResp, slot |-> 0, did |-> {}]

NoDone == [IdleProc EXCEPT !.pc = "none"]

\* jwt.verify's null result, and no verification made yet
NoPayload == [userId |-> 0, email |-> "none", iat |-> 0, exp |-> 0]
NoVerify == [fn |-> "none", token |-> NoJwt, at |-> NullTime, result |-> NoPayload,
             status |-> 0, preReset |-> FALSE]

\* JWT_ACCESS_SECRET, JWT_REFRESH_SECRET and ENCRYPTION_KEY not set
NoEnv == [JWT_ACCESS_SECRET |-> "", JWT_REFRESH_SECRET |-> "", ENCRYPTION_KEY |-> ""]

\* The browser tab on the login page.  user: the payload the dashboard displays;
\* error: the message it shows instead; timer: its setTimeout(() =>
\* router.push('/login')) is pending
NoPage == [route |-> "/login", user |-> NoPayload, error |-> "none", timer |-> FALSE]

\* prisma.userApiKey without rows; created and requests count the rows created
\* and the api-keys requests made so far
NoApiKeys == [rows |-> {}, created |-> 0, requests |-> 0]

\* text: the string given to encrypt, as UTF-16 code units; encryptedData: the
\* base64 string encrypt returned; out: what decrypt did with it
NoResult == [threw |-> FALSE, text |-> <<>>]
\* getOpenAIClient's null
NoClient == [client |-> FALSE, apiKey |-> <<>>]
\* tamper: what was done to the payload between encrypt and decrypt
NoAes == [pc |-> "none", text |-> <<>>, encryptedData |-> <<>>, tamper |-> "none",
          out |-> NoResult, client |-> NoClient]

\* issued: the token pairs issued; preReset: those issued to a user before a
\* password reset of that user succeeded; loggedOut: the refresh tokens the
\* browser held at a logout; resetUsed: the reset tokens a reset succeeded with;
\* resetIssued, otpIssued: the <<user id, token or code>> saved, in order
NoHist == [issued |-> {}, preReset |-> {}, loggedOut |-> {}, resetUsed |-> {},
           resetIssued |-> <<>>, otpIssued |-> <<>>]

ClientEmpty ==
    /\ env = NoEnv
    /\ aes = NoAes
    /\ userApiKey = NoApiKeys
    /\ page = NoPage
    /\ localStorage = NoTokens
    /\ verified = NoVerify
    /\ hist = NoHist

TablesEmpty ==
    /\ ticks = 0
    /\ users = <<>>
    /\ tenants = {}
    /\ sessions = {}
    /\ nextToken = 0
    /\ procs = [p \in Procs |-> IdleProc]
    /\ done = NoDone
    /\ ClientEmpty

----------------------------------------------------------------------------
(* Pure helpers of the handlers *)

SEVEN_DAYS_MS == 604800000
ACCESS_EXPIRY_S == 900
REFRESH_EXPIRY_S == 604800
RESET_TOKEN_MINUTES == 30

\* process.env.JWT_ACCESS_SECRET || 'default-access-secret-change-this'
ACCESS_SECRET ==
    IF env.JWT_ACCESS_SECRET # "" THEN env.JWT_ACCESS_SECRET
    ELSE "default-access-secret-change-this"
REFRESH_SECRET ==
    IF env.JWT_REFRESH_SECRET # "" THEN env.JWT_REFRESH_SECRET
    ELSE "default-refresh-secret-change-this"

RATE_LIMITS ==
    [LOGIN    |-> [windowMs |-> 15 * 60 * 1000, maxRequests |-> 5],
     REGISTER |-> [windowMs |-> 60 * 60 * 1000, maxRequests |-> 3],
     API      |-> [windowMs |-> 60 * 1000, maxRequests |-> 60]]

\* the config each route passes to checkRateLimit
RateLimitOf(a) ==
    CASE a \in {"login", "verify-otp"} -> RATE_LIMITS.LOGIN
      [] a = "register" -> RATE_LIMITS.REGISTER
      [] OTHER -> RATE_LIMITS.API

trim(entry) == entry.text

\* getClientIdentifier that looks at x-real-ip before cf-connecting-ip
getClientIdentifier_RealIpFirst(h) ==
    LET first == IF h.forwarded # <<>> THEN trim(h.forwarded[1]) ELSE "" IN
    IF h.realIp # "" THEN h.realIp
    ELSE IF h.cf # "" THEN h.cf
    ELSE IF first # "" THEN first
    ELSE "unknown"

getClientIdentifier(h) ==
    LET first == IF h.forwarded # <<>> THEN trim(h.forwarded[1]) ELSE "" IN
    IF h.cf # "" THEN h.cf
    ELSE IF h.realIp # "" THEN h.realIp
    ELSE IF first # "" THEN first
    ELSE "unknown"

toLowerCase(e) == IF e = "A@x.com" THEN "a@x.com" ELSE e

\* z.string().email()
IsEmail(e) == e \in {"a@x.com", "A@x.com", "b@x.com", "c@x.com"}
\* min(8) and the three character-class regexes
IsStrongPassword(pw) == pw \in {"Abc12345", "Xyz98765"}

loginSchema(b) == IsEmail(b.email) /\ b.password # ""
registerSchema(b) == IsEmail(b.email) /\ IsStrongPassword(b.password)
forgotPasswordSchema(b) == IsEmail(b.email)
resetPasswordSchema(b) == b.token # NoToken /\ IsStrongPassword(b.password)

\* bcrypt: the hash verifies exactly the password it was made from
hashPassword(pw) == [alg |-> "bcrypt", of |-> pw]
verifyPassword(pw, hash) == hash = [alg |-> "bcrypt", of |-> pw]

\* jwt.sign(payload, secret, {expiresIn}) at Date.now() = t: iat and exp are seconds
signAccessToken(payload, t) ==
    [kind |-> "access", secret |-> ACCESS_SECRET, userId |-> payload.userId,
     email |-> payload.email, iat |-> t \div 1000, exp |-> (t \div 1000) + ACCESS_EXPIRY_S]

signRefreshToken(payload, t) ==
    [kind |-> "refresh", secret |-> REFRESH_SECRET, userId |-> payload.userId,
     email |-> payload.email, iat |-> t \div 1000, exp |-> (t \div 1000) + REFRESH_EXPIRY_S]

generateTokenPair(payload, t) ==
    [accessToken |-> signAccessToken(payload, t),
     refreshToken |-> signRefreshToken(payload, t)]

\* jwt.verify(token, secret) at Date.now() = t: it throws on a string that is no
\* JWT, on a signature made with another secret and when the clock (in seconds)
\* has reached exp; otherwise it returns the decoded payload
jwtVerify(token, secret, t) ==
    IF token = NoJwt \/ token.secret # secret \/ t \div 1000 >= token.exp
    THEN NoPayload
    ELSE [userId |-> token.userId, email |-> token.email,
          iat |-> token.iat, exp |-> token.exp]

\* verifyAccessToken that also wants a session row of the token's user
verifyAccessToken_RequiresSession(token, t) ==
    IF \E x \in sessions : x.userId = token.userId
    THEN jwtVerify(token, ACCESS_SECRET, t) ELSE NoPayload

\* try { return jwt.verify(token, ACCESS_SECRET) } catch { return null }
verifyAccessToken(token, t) == jwtVerify(token, ACCESS_SECRET, t)

\* try { return jwt.verify(token, REFRESH_SECRET) } catch { return null }
verifyRefreshToken(token, t) == jwtVerify(token, REFRESH_SECRET, t)

getResetTokenExpiry(minutes, t) == t + minutes * 60 * 1000

\* isExpired whose comparison includes the instant of expiry
isExpired_Inclusive(expiresAt, t) == expiresAt = NullTime \/ t >= expiresAt

\* if (!expiresAt) return true; return new Date() > expiresAt
isExpired(expiresAt, t) == expiresAt = NullTime \/ t > expiresAt

OTP_MIN == 100000
OTP_MAX == 999999
OTP_MINUTES == 10

\* crypto.randomInt(min, max): min <= n < max
randomInt(min, max) == min..(max - 1)

Digit(d) == <<"0", "1", "2", "3", "4", "5", "6", "7", "8", "9">>[d + 1]

\* Number.prototype.toString of a natural number: its decimal digits
RECURSIVE toString(_)
toString(n) ==
    IF n < 10 THEN <<Digit(n)>> ELSE Append(toString(n \div 10), Digit(n % 10))

\* generateOTP() when randomInt drew n
generateOTP(n) == Str(toString(n))

getOTPExpiry(minutes, t) == t + minutes * 60 * 1000

\* String.prototype.length and trim
length(str) == str.lead + Len(str.text) + str.trail
trimmed(str) == Str(str.text)

\* verifyOTP that accepts every code
verifyOTP_Any(provided, stored) == TRUE

\* provided.trim() === stored.trim()
verifyOTP(provided, stored) == trimmed(provided) = trimmed(stored)

sendOTPSchema(b) == IsEmail(b.email)
verifyOTPSchema(b) == IsEmail(b.email) /\ length(b.otp) = 6

\* findUnique that never finds a row
findUserByEmail_Never(us, e) == NoUser

\* prisma.user.findUnique({ where: { email } })
findUserByEmail(us, e) ==
    IF \E i \in DOMAIN us : us[i].email = e
    THEN us[CHOOSE i \in DOMAIN us : us[i].email = e]
    ELSE NoUser

\* prisma.user.findUnique({ where: { resetToken } })
findUserByResetToken(us, tok) ==
    IF \E i \in DOMAIN us : us[i].resetToken = tok
    THEN us[CHOOSE i \in DOMAIN us : us[i].resetToken = tok]
    ELSE NoUser

\* tx.user.create({ data: { email, passwordHash, name } }): the new row
NewUser(id, email, pw) ==
    [NoUser EXCEPT !.id = id, !.email = toLowerCase(email),
                   !.passwordHash = hashPassword(pw)]

\* tx.tenant.create and tx.tenantMember.create for the new user
NewTenant(user) ==
    [ownerId |-> user.id, plan |-> "FREE",
     members |-> {[userId |-> user.id, role |-> "OWNER"]}]

\* a session row that expires after one day
NewSession_OneDay(user, tokens, t) ==
    [userId |-> user.id, token |-> tokens.refreshToken, expiresAt |-> t + 86400000]

\* prisma.session.create({ data: { userId, token, expiresAt: Date.now() + 7 days } })
NewSession(user, tokens, t) ==
    [userId |-> user.id, token |-> tokens.refreshToken, expiresAt |-> t + SEVEN_DAYS_MS]

\* the session table is keyed by the refresh token: a second row with it is refused
SessionTokenTaken(ss, tok) == \E x \in ss : x.token = tok

\* NextResponse.json(body, { status }) returned by the handler in state rec
Reply(rec, status, text) ==
    [rec EXCEPT !.pc = "done", !.resp = [status |-> status, text |-> text]]

----------------------------------------------------------------------------
(* SpecRL: the limiter under an arbitrary fixed config *)

RLKeys == {<<"login", "c1">>, <<"login", "unknown">>}

InitRL ==
    /\ now = 0
    /\ store = [k \in Keys |-> NoRecord]
    /\ cfg \in [windowMs : 1..MaxWindowMs, maxRequests : 0..MaxMaxRequests]
    /\ rlLast = NoCall
    /\ rlWin = [k \in Keys |-> NoWindow]
    /\ rlAllowedAt = [k \in Keys |-> <<>>]
    /\ TablesEmpty
    /\ budget = [r \in Actions |-> 0]

\* the allowed calls a later interval of length windowMs can still contain
Recent(times, t, w) == SelectSeq(times, LAMBDA x : x >= t - w)

RLCall(k) ==
    /\ store[k].count < MaxCount
    /\ RateLimitCall(k, cfg)
    /\ rlLast' = [key |-> k, at |-> now, before |-> store[k],
                  after |-> checkRateLimit(store, k, cfg, now).store[k],
                  config |-> cfg, result |-> checkRateLimit(store, k, cfg, now).result]
    /\ rlAllowedAt' = [rlAllowedAt EXCEPT ![k] =
          Recent(IF checkRateLimit(store, k, cfg, now).result.allowed
                 THEN Append(@, now) ELSE @, now, cfg.windowMs)]
    /\ UNCHANGED <<now, cfg>>
    /\ UNCHANGED hVars

RLTick ==
    /\ now < MaxNowRL
    /\ now' = now + 1
    /\ UNCHANGED <<store, cfg, rlLast, rlWin, rlAllowedAt>>
    /\ UNCHANGED hVars

\* setInterval(cleanupExpiredRecords, ...) firing between two calls
RLCleanup ==
    /\ store' = cleanupExpiredRecords(store, now)
    /\ store' # store
    /\ UNCHANGED <<now, cfg, rlLast, rlWin, rlAllowedAt>>
    /\ UNCHANGED hVars

NextRL ==
    \/ \E k \in RLKeys : RLCall(k)
    \/ RLTick
    \/ RLCleanup

SpecRL == InitRL /\ [][NextRL]_vars

----------------------------------------------------------------------------
(* Claims about the limiter, under SpecRL *)

FreshRecord(c) == [count |-> 1, resetTime |-> c.at + c.config.windowMs]

\* C1: with maxRequests >= 1, the first maxRequests calls of a window are
\* allowed and every further call of that window is denied; the first call made
\* with now > resetTime is allowed and opens a fresh window (count = 1,
\* resetTime = now + windowMs).
C1_WindowAllowsFirstMax ==
    (rlLast # NoCall /\ rlLast.config.maxRequests >= 1) =>
        LET w == rlWin[rlLast.key] IN
        /\ rlLast.result.allowed = (w.calls <= rlLast.config.maxRequests)
        /\ w.calls = 1 => rlLast.after = FreshRecord(rlLast)
        /\ (rlLast.before # NoRecord /\ rlLast.at > rlLast.before.resetTime) =>
              /\ rlLast.result.allowed
              /\ rlLast.after = FreshRecord(rlLast)
              /\ w.calls = 1

\* C1 witness: an exhausted window (a denied call was made in it) ended and the
\* call after its resetTime was allowed in a fresh window.
C1_Witness ==
    /\ rlLast # NoCall
    /\ rlLast.config.maxRequests >= 1
    /\ rlLast.before.count > rlLast.config.maxRequests
    /\ rlLast.at > rlLast.before.resetTime
    /\ rlLast.result.allowed
    /\ rlLast.after = FreshRecord(rlLast)

\* C2 (as claimed): after every call, for every config, allowed is true exactly
\* when the stored count is <= maxRequests; the count is 1 after a call that
\* found no entry or now > resetTime and the previous count plus 1 otherwise.
C2_AllowedIffCountWithinMax ==
    rlLast # NoCall =>
        /\ rlLast.result.allowed = (rlLast.after.count <= rlLast.config.maxRequests)
        /\ rlLast.after.count =
              IF rlLast.before = NoRecord \/ rlLast.at > rlLast.before.resetTime
              THEN 1 ELSE rlLast.before.count + 1

\* C3: a denied call returns remaining = 0 and the resetTime it returns is the
\* stored one before and after the call; an allowed call returns
\* remaining = maxRequests - count.
C3_DeniedLeavesWindow ==
    rlLast # NoCall =>
        /\ ~rlLast.result.allowed =>
              /\ rlLast.result.remaining = 0
              /\ rlLast.before # NoRecord
              /\ rlLast.result.resetTime = rlLast.before.resetTime
              /\ rlLast.after.resetTime = rlLast.before.resetTime
        /\ rlLast.result.allowed =>
              rlLast.result.remaining = rlLast.config.maxRequests - rlLast.after.count

\* C3 witness: a second denied call in the same window, made later than the
\* first, with the window's end where it was.
C3_Witness ==
    /\ rlLast # NoCall
    /\ ~rlLast.result.allowed
    /\ rlLast.before.count > rlLast.config.maxRequests
    /\ rlLast.at > rlWin[rlLast.key].start
    /\ rlLast.after.resetTime = rlWin[rlLast.key].start + rlLast.config.windowMs

\* C4 (as claimed): a call made with now equal to the stored resetTime restarts
\* the window (count = 1, resetTime = now + windowMs) and is allowed.
C4_RestartAtResetTime ==
    (rlLast # NoCall /\ rlLast.before # NoRecord /\ rlLast.at = rlLast.before.resetTime) =>
        /\ rlLast.after = FreshRecord(rlLast)
        /\ rlLast.result.allowed

\* C4 (amended): a call made with now equal to the stored resetTime is still
\* counted in the old window (count + 1, resetTime unchanged, denied when the
\* window is exhausted); the window restarts at the first call with
\* now > resetTime, which is allowed even if the old window was exhausted.
C4_RestartAfterResetTime ==
    (rlLast # NoCall /\ rlLast.before # NoRecord) =>
        /\ rlLast.at = rlLast.before.resetTime =>
              /\ rlLast.after = [count |-> rlLast.before.count + 1,
                                 resetTime |-> rlLast.before.resetTime]
              /\ rlLast.result.allowed =
                    (rlLast.before.count + 1 <= rlLast.config.maxRequests)
        /\ rlLast.at > rlLast.before.resetTime =>
              /\ rlLast.after = FreshRecord(rlLast)
              /\ rlLast.result.allowed

\* C4 witness: an exhausted window, and a call at exactly its resetTime: denied.
C4_Witness ==
    /\ rlLast # NoCall
    /\ rlLast.before # NoRecord
    /\ rlLast.config.maxRequests >= 1
    /\ rlLast.at = rlLast.before.resetTime
    /\ rlLast.before.count >= rlLast.config.maxRequests
    /\ ~rlLast.result.allowed

\* C5 (as claimed): for one key and a fixed config, the allowed calls whose
\* times lie in one interval of length windowMs number at most 2 x maxRequests.
C5_BurstAtMostTwiceMax ==
    \A k \in Keys : Len(rlAllowedAt[k]) <= 2 * cfg.maxRequests

----------------------------------------------------------------------------
(* The route handlers.  A handler runs from one await to the next as one    *)
(* step; between two steps any other handler may run.                       *)

MaxTicks == 1          \* the clock advances at most this often
MaxLoginCalls == 6     \* SpecLogin: login requests sent
MaxRegisterCalls == 2  \* SpecLogin: register requests sent
MaxForgotCalls == 2    \* SpecReset: forgot-password requests sent
MaxResetCalls == 2     \* SpecReset: reset-password requests sent
MaxResetTokens == 2    \* generateResetToken() is called at most this often

\* the clock's steps: a millisecond, and past the end of a login window
TickSteps == {1, 15 * 60 * 1000 + 1}

RequestHeaders == {[NoHeaders EXCEPT !.cf = "c1"]}

Body(e, pw) == [NoBody EXCEPT !.json = TRUE, !.email = e, !.password = pw]
BadJson == NoBody

\* SpecLogin: a@x.com registers; logins name it (in another case) with the right
\* and a wrong password, name an unknown account, or carry an invalid email
LoginBodiesLogin ==
    {Body("A@x.com", "Abc12345"), Body("A@x.com", "Xyz98765"),
     Body("b@x.com", "Abc12345"), Body("not-an-email", "Abc12345")}
RegisterBodiesLogin ==
    {Body("a@x.com", "Abc12345"), Body("a@x.com", "weak")}


InitHandlers ==
    /\ now = 0
    /\ store = [k \in Keys |-> NoRecord]
    /\ cfg = RATE_LIMITS.LOGIN
    /\ rlLast = NoCall
    /\ rlWin = [k \in Keys |-> NoWindow]
    /\ rlAllowedAt = [k \in Keys |-> <<>>]
    /\ TablesEmpty

\* The step of request p leaves it in state rec: still running, or answered.
Step(p, rec) ==
    IF rec.pc = "done"
    THEN procs' = [procs EXCEPT ![p] = IdleProc] /\ done' = rec
    ELSE procs' = [procs EXCEPT ![p] = rec] /\ done' = NoDone

\* Begin that counts the request but goes on when the limiter denies it
Begin_IgnoresDenial(p, a, h, b, text) ==
    LET c == getClientIdentifier(h)
        k == <<a, c>>
        r == checkRateLimit(store, k, RateLimitOf(a), now)
        rec == [IdleProc EXCEPT !.pc = "find", !.handler = a, !.client = c,
                                !.headers = h, !.body = b,
                                !.slot = WindowAfter(rlWin[k], RateLimitOf(a), now,
                                                     r.result.allowed).calls] IN
    /\ procs[p].pc = "idle"
    /\ p = "p2" => procs["p1"].pc # "idle"
    /\ budget[a] > 0
    /\ budget' = [budget EXCEPT ![a] = @ - 1]
    /\ RateLimitCall(k, RateLimitOf(a))
    /\ Step(p, rec)
    /\ UNCHANGED <<now, cfg, rlLast, rlAllowedAt, ticks, users, tenants, sessions,
                   nextToken, hist>>
    /\ UNCHANGED tokVars
    /\ verified' = NoVerify

\* The synchronous head every route shares: getClientIdentifier, checkRateLimit,
\* and the 429 response when the call is denied.
Begin(p, a, h, b, text) ==
    LET c == getClientIdentifier(h)
        k == <<a, c>>
        r == checkRateLimit(store, k, RateLimitOf(a), now)
        rec == [IdleProc EXCEPT !.pc = "find", !.handler = a, !.client = c,
                                !.headers = h, !.body = b,
                                !.slot = WindowAfter(rlWin[k], RateLimitOf(a), now,
                                                     r.result.allowed).calls] IN
    /\ procs[p].pc = "idle"
    /\ p = "p2" => procs["p1"].pc # "idle"     \* requests take the first free slot
    /\ budget[a] > 0
    /\ budget' = [budget EXCEPT ![a] = @ - 1]
    /\ RateLimitCall(k, RateLimitOf(a))
    /\ Step(p, IF r.result.allowed THEN rec ELSE Reply(rec, 429, text))
    /\ UNCHANGED <<now, cfg, rlLast, rlAllowedAt, ticks, users, tenants, sessions,
                   nextToken, hist>>
    /\ UNCHANGED tokVars
    /\ verified' = NoVerify

At(p, a, pc) == procs[p].handler = a /\ procs[p].pc = pc

\* a step that touches neither the limiter nor the clock nor the browser
Calm ==
    /\ UNCHANGED <<now, store, cfg, rlLast, rlWin, rlAllowedAt, ticks, budget>>
    /\ UNCHANGED tokVars
    /\ verified' = NoVerify
Quiet == Calm /\ UNCHANGED hist

(* login: src/app/api/auth/login/route.ts *)

LoginBegin(p, h, b) ==
    Begin(p, "login", h, b, "Too many login attempts. Please try again later.")

\* LoginFind that tells an unknown account apart from a wrong password
LoginFind_RevealsUnknown(p) ==
    LET me == procs[p]
        user == findUserByEmail(users, toLowerCase(me.body.email))
        looked == [me EXCEPT !.did = @ \cup {"lookup"}, !.user = user] IN
    /\ At(p, "login", "find")
    /\ Step(p, IF ~me.body.json THEN Reply(me, 500, "An error occurred during login")
               ELSE IF ~loginSchema(me.body) THEN Reply(me, 400, "Validation failed")
               ELSE IF user = NoUser THEN Reply(looked, 404, "User not found")
               ELSE [looked EXCEPT !.pc = "verify"])
    /\ Quiet
    /\ UNCHANGED <<users, tenants, sessions, nextToken>>

\* request.json(), loginSchema.parse, prisma.user.findUnique
LoginFind(p) ==
    LET me == procs[p]
        user == findUserByEmail(users, toLowerCase(me.body.email))
        looked == [me EXCEPT !.did = @ \cup {"lookup"}, !.user = user] IN
    /\ At(p, "login", "find")
    /\ Step(p, IF ~me.body.json THEN Reply(me, 500, "An error occurred during login")
               ELSE IF ~loginSchema(me.body) THEN Reply(me, 400, "Validation failed")
               ELSE IF user = NoUser THEN Reply(looked, 401, "Invalid email or password")
               ELSE [looked EXCEPT !.pc = "verify"])
    /\ Quiet
    /\ UNCHANGED <<users, tenants, sessions, nextToken>>

\* verifyPassword, prisma.user.update({ lastLoginAt })
LoginVerify(p) ==
    LET me == procs[p] IN
    /\ At(p, "login", "verify")
    /\ IF ~verifyPassword(me.body.password, me.user.passwordHash)
       THEN /\ Step(p, Reply(me, 401, "Invalid email or password"))
            /\ users' = users
       ELSE /\ Step(p, [me EXCEPT !.pc = "session", !.did = @ \cup {"userUpdate"}])
            /\ users' = [users EXCEPT ![me.user.id].lastLoginAt = now]
    /\ Quiet
    /\ UNCHANGED <<tenants, sessions, nextToken>>

\* generateTokenPair, prisma.session.create, the response (login and register)
IssueSession(p, status, failure) ==
    LET me == procs[p]
        tokens == generateTokenPair([userId |-> me.user.id, email |-> me.user.email], now) IN
    IF SessionTokenTaken(sessions, tokens.refreshToken)
    THEN /\ Step(p, Reply(me, 500, failure))
         /\ sessions' = sessions
         /\ hist' = hist
    ELSE /\ Step(p, Reply([me EXCEPT !.tokens = tokens,
                                     !.did = @ \cup {"sessionCreate"}], status, "ok"))
         /\ sessions' = sessions \cup {NewSession(me.user, tokens, now)}
         /\ hist' = [hist EXCEPT !.issued = @ \cup {tokens}]

LoginSession(p) ==
    /\ At(p, "login", "session")
    /\ IssueSession(p, 200, "An error occurred during login")
    /\ Calm
    /\ UNCHANGED <<users, tenants, nextToken>>

(* register: src/unnamed/part_007, lines 301-446 *)

RegisterBegin(p, h, b) ==
    Begin(p, "register", h, b, "Too many registration attempts. Please try again later.")

\* request.json(), registerSchema.parse, prisma.user.findUnique
RegisterFind(p) ==
    LET me == procs[p]
        existingUser == findUserByEmail(users, toLowerCase(me.body.email))
        looked == [me EXCEPT !.did = @ \cup {"lookup"}] IN
    /\ At(p, "register", "find")
    /\ Step(p, IF ~me.body.json
               THEN Reply(me, 500, "An error occurred during registration")
               ELSE IF ~registerSchema(me.body) THEN Reply(me, 400, "Validation failed")
               ELSE IF existingUser # NoUser
                    THEN Reply(looked, 400, "User with this email already exists")
               ELSE [looked EXCEPT !.pc = "create"])
    /\ Quiet
    /\ UNCHANGED <<users, tenants, sessions, nextToken>>

\* hashPassword, prisma.$transaction: user, tenant, tenantMember.  The email
\* column is unique: the create throws when a row with it was inserted meanwhile.
RegisterCreate(p) ==
    LET me == procs[p]
        newUser == NewUser(Len(users) + 1, me.body.email, me.body.password) IN
    /\ At(p, "register", "create")
    /\ IF findUserByEmail(users, toLowerCase(me.body.email)) # NoUser
       THEN /\ Step(p, Reply(me, 500, "An error occurred during registration"))
            /\ UNCHANGED <<users, tenants>>
       ELSE /\ Step(p, [me EXCEPT !.pc = "session", !.user = newUser,
                                  !.did = @ \cup {"userCreate"}])
            /\ users' = Append(users, newUser)
            /\ tenants' = tenants \cup {NewTenant(newUser)}
    /\ Quiet
    /\ UNCHANGED <<sessions, nextToken>>

RegisterSession(p) ==
    /\ At(p, "register", "session")
    /\ IssueSession(p, 201, "An error occurred during registration")
    /\ Calm
    /\ UNCHANGED <<users, tenants, nextToken>>

(* forgot-password: src/app/api/auth/forgot-password/route.ts *)

ForgotMessage == "If an account with that email exists, a password reset link has been sent."

ForgotBegin(p, h, b) ==
    Begin(p, "forgot-password", h, b, "Too many requests. Please try again later.")

\* request.json(), parse, findUnique, generateResetToken, getResetTokenExpiry(30)
ForgotFind(p) ==
    LET me == procs[p]
        user == findUserByEmail(users, toLowerCase(me.body.email))
        looked == [me EXCEPT !.did = @ \cup {"lookup"}, !.user = user]
        found == me.body.json /\ forgotPasswordSchema(me.body) /\ user # NoUser IN
    /\ At(p, "forgot-password", "find")
    /\ found => nextToken < MaxResetTokens
    /\ nextToken' = IF found THEN nextToken + 1 ELSE nextToken
    /\ Step(p, IF ~me.body.json
               THEN Reply(me, 500, "An error occurred. Please try again later.")
               ELSE IF ~forgotPasswordSchema(me.body) THEN Reply(me, 400, "Validation failed")
               ELSE IF user = NoUser THEN Reply(looked, 200, ForgotMessage)
               ELSE [looked EXCEPT !.pc = "save",
                        !.newToken = nextToken + 1,
                        !.newExpiry = getResetTokenExpiry(RESET_TOKEN_MINUTES, now)])
    /\ Quiet
    /\ UNCHANGED <<users, tenants, sessions>>

\* ForgotSave that leaves a token the user already holds in place
ForgotSave_KeepsFirst(p) ==
    LET me == procs[p] IN
    /\ At(p, "forgot-password", "save")
    /\ users' = IF users[me.user.id].resetToken # NoToken THEN users
                ELSE [users EXCEPT ![me.user.id].resetToken = me.newToken,
                                   ![me.user.id].resetTokenExpiresAt = me.newExpiry]
    /\ Step(p, [me EXCEPT !.pc = "mail", !.did = @ \cup {"userUpdate"}])
    /\ hist' = [hist EXCEPT !.resetIssued = Append(@, <<me.user.id, me.newToken>>)]
    /\ Calm
    /\ UNCHANGED <<tenants, sessions, nextToken>>

\* prisma.user.update({ resetToken, resetTokenExpiresAt })
ForgotSave(p) ==
    LET me == procs[p] IN
    /\ At(p, "forgot-password", "save")
    /\ users' = [users EXCEPT ![me.user.id].resetToken = me.newToken,
                              ![me.user.id].resetTokenExpiresAt = me.newExpiry]
    /\ Step(p, [me EXCEPT !.pc = "mail", !.did = @ \cup {"userUpdate"}])
    /\ hist' = [hist EXCEPT !.resetIssued = Append(@, <<me.user.id, me.newToken>>)]
    /\ Calm
    /\ UNCHANGED <<tenants, sessions, nextToken>>

\* await sendEmail(...): it resolves, or throws 'Failed to send email'
ForgotMail(p, sent) ==
    LET me == procs[p] IN
    /\ At(p, "forgot-password", "mail")
    /\ Step(p, IF sent THEN Reply(me, 200, ForgotMessage)
               ELSE Reply(me, 500, "An error occurred. Please try again later."))
    /\ Quiet
    /\ UNCHANGED <<users, tenants, sessions, nextToken>>

(* reset-password: src/app/api/auth/reset-password/route.ts *)

ResetBegin(p, h, b) ==
    Begin(p, "reset-password", h, b, "Too many requests. Please try again later.")

\* request.json(), parse, findUnique by resetToken, isExpired
ResetFind(p) ==
    LET me == procs[p]
        user == findUserByResetToken(users, me.body.token)
        looked == [me EXCEPT !.did = @ \cup {"lookup"}, !.user = user] IN
    /\ At(p, "reset-password", "find")
    /\ Step(p, IF ~me.body.json
               THEN Reply(me, 500, "An error occurred. Please try again later.")
               ELSE IF ~resetPasswordSchema(me.body) THEN Reply(me, 400, "Validation failed")
               ELSE IF user = NoUser THEN Reply(looked, 400, "Invalid or expired reset token")
               ELSE IF isExpired(user.resetTokenExpiresAt, now)
                    THEN Reply(looked, 400, "Reset token has expired. Please request a new one.")
               ELSE [looked EXCEPT !.pc = "update"])
    /\ Quiet
    /\ UNCHANGED <<users, tenants, sessions, nextToken>>

\* hashPassword, prisma.user.update({ passwordHash, resetToken: null, ... })
ResetUpdate(p) ==
    LET me == procs[p] IN
    /\ At(p, "reset-password", "update")
    /\ users' = [users EXCEPT
          ![me.user.id].passwordHash = hashPassword(me.body.password),
          ![me.user.id].resetToken = NoToken,
          ![me.user.id].resetTokenExpiresAt = NullTime]
    /\ Step(p, [me EXCEPT !.pc = "sessions", !.did = @ \cup {"userUpdate"}])
    /\ Quiet
    /\ UNCHANGED <<tenants, sessions, nextToken>>

\* ResetSessions whose deleteMany has no where clause
ResetSessions_DeletesAll(p) ==
    LET me == procs[p] IN
    /\ At(p, "reset-password", "sessions")
    /\ sessions' = {}
    /\ Step(p, Reply([me EXCEPT !.did = @ \cup {"sessionDelete"}], 200,
                     "Password reset successfully. Please login with your new password."))
    /\ hist' = [hist EXCEPT
          !.resetUsed = @ \cup {me.body.token},
          !.preReset = @ \cup {t \in hist.issued : t.refreshToken.userId = me.user.id}]
    /\ Calm
    /\ UNCHANGED <<users, tenants, nextToken>>

\* prisma.session.deleteMany({ where: { userId } }), the 200 response
ResetSessions(p) ==
    LET me == procs[p] IN
    /\ At(p, "reset-password", "sessions")
    /\ sessions' = {x \in sessions : x.userId # me.user.id}
    /\ Step(p, Reply([me EXCEPT !.did = @ \cup {"sessionDelete"}], 200,
                     "Password reset successfully. Please login with your new password."))
    /\ hist' = [hist EXCEPT
          !.resetUsed = @ \cup {me.body.token},
          !.preReset = @ \cup {t \in hist.issued : t.refreshToken.userId = me.user.id}]
    /\ Calm
    /\ UNCHANGED <<users, tenants, nextToken>>

(* the clock and the cleanup timer *)

Tick(d) ==
    /\ ticks < MaxTicks
    /\ ticks' = ticks + 1
    /\ now' = now + d
    /\ done' = NoDone
    /\ UNCHANGED <<store, cfg, rlLast, rlWin, rlAllowedAt, users, tenants, sessions,
                   nextToken, procs, budget, hist>>
    /\ UNCHANGED tokVars
    /\ verified' = NoVerify

Cleanup ==
    /\ store' = cleanupExpiredRecords(store, now)
    /\ store' # store
    /\ done' = NoDone
    /\ UNCHANGED <<now, cfg, rlLast, rlWin, rlAllowedAt, ticks, users, tenants, sessions,
                   nextToken, procs, budget, hist>>
    /\ UNCHANGED tokVars
    /\ verified' = NoVerify

(* SpecLogin: register and login, up to the login limit *)

InitLogin ==
    /\ InitHandlers
    /\ budget = [r \in Actions |->
                    CASE r = "login" -> MaxLoginCalls
                      [] r = "register" -> MaxRegisterCalls
                      [] OTHER -> 0]

NextLogin ==
    \/ \E p \in Procs, h \in RequestHeaders, b \in LoginBodiesLogin :
          LoginBegin(p, h, b)
    \/ \E p \in Procs : LoginFind(p)
    \/ \E p \in Procs : LoginVerify(p)
    \/ \E p \in Procs : LoginSession(p)
    \/ \E p \in Procs, h \in RequestHeaders, b \in RegisterBodiesLogin :
          RegisterBegin(p, h, b)
    \/ \E p \in Procs : RegisterFind(p)
    \/ \E p \in Procs : RegisterCreate(p)
    \/ \E p \in Procs : RegisterSession(p)
    \/ \E d \in TickSteps : Tick(d)
    \/ Cleanup

SpecLogin == InitLogin /\ [][NextLogin]_vars

(* SpecReset: forgot-password and reset-password.  The tables outlive the   *)
(* server process: it starts with an empty limiter store and the rows two   *)
(* registrations (a@x.com, b@x.com) left.                                  *)

Registered ==
    <<NewUser(1, "a@x.com", "Abc12345"), NewUser(2, "b@x.com", "Abc12345")>>

\* the token pair and the session row a login of user at time t left
PairAt(user, t) == generateTokenPair([userId |-> user.id, email |-> user.email], t)
SessionAt(user, t) == NewSession(user, PairAt(user, t), t)

ForgotBodies == {Body("A@x.com", "none"), Body("b@x.com", "none"),
                 Body("c@x.com", "none"), Body("not-an-email", "none")}
ResetBodies ==
    {[NoBody EXCEPT !.json = TRUE, !.password = pw, !.token = t] :
        pw \in {"Xyz98765"}, t \in 1..MaxResetTokens}
    \cup {[NoBody EXCEPT !.json = TRUE, !.password = "weak", !.token = 1], BadJson}

\* the clock's steps: a millisecond, and past the life of a reset token
TickStepsReset == {1, RESET_TOKEN_MINUTES * 60 * 1000 + 1}

InitReset ==
    /\ env = NoEnv
    /\ aes = NoAes
    /\ userApiKey = NoApiKeys
    /\ page = NoPage
    /\ localStorage = NoTokens
    /\ verified = NoVerify
    /\ hist = [NoHist EXCEPT !.issued =
                  {PairAt(Registered[i], 0) : i \in DOMAIN Registered}]
    /\ now = 0
    /\ store = [k \in Keys |-> NoRecord]
    /\ cfg = RATE_LIMITS.API
    /\ rlLast = NoCall
    /\ rlWin = [k \in Keys |-> NoWindow]
    /\ rlAllowedAt = [k \in Keys |-> <<>>]
    /\ ticks = 0
    /\ users = Registered
    /\ tenants = {NewTenant(Registered[i]) : i \in DOMAIN Registered}
    /\ sessions = {SessionAt(Registered[i], 0) : i \in DOMAIN Registered}
    /\ nextToken = 0
    /\ procs = [p \in Procs |-> IdleProc]
    /\ done = NoDone
    /\ budget = [r \in Actions |->
                    CASE r = "forgot-password" -> MaxForgotCalls
                      [] r = "reset-password" -> MaxResetCalls
                      [] OTHER -> 0]

NextReset ==
    \/ \E p \in Procs, h \in RequestHeaders, b \in ForgotBodies : ForgotBegin(p, h, b)
    \/ \E p \in Procs : ForgotFind(p)
    \/ \E p \in Procs : ForgotSave(p)
    \/ \E p \in Procs, sent \in BOOLEAN : ForgotMail(p, sent)
    \/ \E p \in Procs, h \in RequestHeaders, b \in ResetBodies : ResetBegin(p, h, b)
    \/ \E p \in Procs : ResetFind(p)
    \/ \E p \in Procs : ResetUpdate(p)
    \/ \E p \in Procs : ResetSessions(p)
    \/ \E d \in TickStepsReset : Tick(d)
    \/ Cleanup

SpecReset == InitReset /\ [][NextReset]_vars

----------------------------------------------------------------------------
(* Claims about login and register, under SpecLogin *)

\* C6: with the handlers of several requests for one key interleaved, no
\* increment is lost: the stored count is the number of checkRateLimit calls
\* made in the window, and at most maxRequests of them were allowed.
C6_NoLostIncrement ==
    \A k \in Keys :
        store[k] # NoRecord =>
            /\ store[k].count = rlWin[k].calls
            /\ rlWin[k].allowed <= RateLimitOf(k[1]).maxRequests

\* C6 witness: two login requests for one key are in flight at once, both past
\* their rate-limit check, between other handlers' steps.
C6_Witness ==
    /\ \A p \in Procs : procs[p].handler = "login" /\ procs[p].pc # "idle"
    /\ procs["p1"].client = procs["p2"].client
    /\ procs["p1"].pc # procs["p2"].pc
    /\ store[<<"login", procs["p1"].client>>].count >= 3

\* C7: the rate-limit check precedes any credential evaluation and every login
\* request takes a slot: the 6th login of a window is answered 429 whatever it
\* carries, looks up and updates no user, creates no session, issues no tokens.
C7_SixthLoginIs429 ==
    /\ [](/\ \A p \in Procs :
               procs[p].handler = "login" => procs[p].slot <= 5
          /\ (done.handler = "login" /\ done.slot > 5) =>
               /\ done.resp.status = 429
               /\ done.did = {}
               /\ done.user = NoUser
               /\ done.tokens = NoTokens
          /\ (done.handler = "login" /\ done.slot <= 5) => done.resp.status # 429
          /\ \A c \in Clients :
               store[<<"login", c>>] # NoRecord =>
                   store[<<"login", c>>].count = rlWin[<<"login", c>>].calls)
    /\ [][(done'.handler = "login" /\ done'.resp.status = 429) =>
             UNCHANGED <<users, tenants, sessions>>]_vars

\* C7 witness: the 6th login of a window carries the right password of an
\* existing account and is answered 429.
C7_Witness ==
    /\ done.handler = "login"
    /\ done.slot = 6
    /\ done.resp.status = 429
    /\ findUserByEmail(users, toLowerCase(done.body.email)) # NoUser
    /\ verifyPassword(done.body.password,
                      findUserByEmail(users, toLowerCase(done.body.email)).passwordHash)

UnknownAccount(d) == "lookup" \in d.did /\ d.user = NoUser
WrongPassword(d) ==
    d.user # NoUser /\ ~verifyPassword(d.body.password, d.user.passwordHash)

C8_WitnessUnknown ==
    /\ done.handler = "login"
    /\ UnknownAccount(done)
    /\ done.resp.status = 401

\* C9: a successful register or login issues a token pair and adds exactly one
\* session row: its token the refresh token returned, its owner the
\* authenticated user, its expiresAt 7 days after the time of the request; a
\* register or login that fails adds none.
C9_OneSessionPerSuccess ==
    [][/\ (done' # NoDone /\ done'.handler \in {"login", "register"}) =>
            IF done'.resp.status \in {200, 201}
            THEN /\ done'.tokens.accessToken.kind = "access"
                 /\ done'.tokens.refreshToken.kind = "refresh"
                 /\ \E x \in sessions' :
                       /\ x \notin sessions
                       /\ sessions' = sessions \cup {x}
                       /\ x.token = done'.tokens.refreshToken
                       /\ x.userId = done'.user.id
                       /\ users'[x.userId].email = toLowerCase(done'.body.email)
                       /\ x.expiresAt = now + 604800000
            ELSE /\ sessions' = sessions
                 /\ done'.tokens = NoTokens
       /\ sessions' # sessions => done'.resp.status \in {200, 201}]_vars

\* C9 witness: a login succeeded and its session stands beside the one the
\* registration created.
C9_Witness ==
    /\ done.handler = "login"
    /\ done.resp.status = 200
    /\ Cardinality(sessions) = 2
    /\ \E x \in sessions : x.token = done.tokens.refreshToken /\ x.expiresAt = now + 604800000

----------------------------------------------------------------------------
(* Claims about the password reset, under SpecReset *)

\* C10: a successful reset-password for user U replaces U's password hash,
\* nulls U's reset token and its expiry and deletes every session of U; the
\* other users' rows and sessions stay as they are.
C10_ResetRevokesSessions ==
    /\ [][\A p \in Procs :
            LET me == procs[p] IN
            /\ (At(p, "reset-password", "update") /\ procs'[p].pc = "sessions") =>
                  /\ users' = [users EXCEPT ![me.user.id] =
                        [@ EXCEPT !.passwordHash = [alg |-> "bcrypt", of |-> me.body.password],
                                  !.resetToken = NoToken,
                                  !.resetTokenExpiresAt = NullTime]]
                  /\ sessions' = sessions
            /\ (At(p, "reset-password", "sessions") /\ procs'[p].pc = "idle") =>
                  /\ done'.resp.status = 200
                  /\ sessions' = {x \in sessions : x.userId # me.user.id}
                  /\ users' = users]_vars
    /\ []((done.handler = "reset-password" /\ done.resp.status = 200) =>
            /\ {"userUpdate", "sessionDelete"} \subseteq done.did
            /\ \A x \in sessions : x.userId # done.user.id)

\* C10 witness: a reset succeeded, its user's session is gone and password
\* replaced, and the other user's session is still there.
C10_Witness ==
    /\ done.handler = "reset-password"
    /\ done.resp.status = 200
    /\ users[done.user.id].passwordHash = hashPassword(done.body.password)
    /\ users[done.user.id].passwordHash # Registered[done.user.id].passwordHash
    /\ users[done.user.id].resetToken = NoToken
    /\ sessions = {SessionAt(Registered[i], 0) : i \in DOMAIN Registered \ {done.user.id}}
    /\ sessions # {}

----------------------------------------------------------------------------
(* SpecSession: the life of a session.  Two registered users log in, the    *)
(* browser keeps the token pair and presents it, a password is reset, the   *)
(* user logs out.                                                           *)

MaxSessionLogins == 1  \* SpecSession: login requests sent

LoginBodiesSession == {Body("A@x.com", "Abc12345"), Body("b@x.com", "Abc12345")}
ForgotBodiesSession == {Body("A@x.com", "none")}
ResetBodiesSession == {[NoBody EXCEPT !.json = TRUE, !.password = "Xyz98765", !.token = 1]}

\* the clock's steps: just short of the life of an access token, and all of it
TickStepsSession == {ACCESS_EXPIRY_S * 1000 - 1, ACCESS_EXPIRY_S * 1000}

\* the tokens a client can present: those issued so far, and a string that is no JWT
Presentable ==
    {t.accessToken : t \in hist.issued} \cup {t.refreshToken : t \in hist.issued}
        \cup {NoJwt}

IssuedBeforeReset(token) ==
    \E t \in hist.preReset : token \in {t.accessToken, t.refreshToken}

\* the login page keeps the pair of a 200 response in localStorage
StoreTokens ==
    /\ done.handler = "login"
    /\ done.resp.status = 200
    /\ localStorage' = done.tokens
    /\ done' = NoDone
    /\ UNCHANGED <<now, store, cfg, rlLast, rlWin, rlAllowedAt, ticks, users, tenants,
                   sessions, nextToken, procs, budget, env, aes, userApiKey, page, hist>>
    /\ verified' = NoVerify

\* handleLogout: localStorage.removeItem('accessToken'), removeItem('refreshToken'),
\* router.push('/login')
handleLogout ==
    /\ localStorage # NoTokens
    /\ localStorage' = NoTokens
    /\ hist' = [hist EXCEPT !.loggedOut = @ \cup {localStorage.refreshToken}]
    /\ page' = NoPage
    /\ done' = NoDone
    /\ UNCHANGED <<now, store, cfg, rlLast, rlWin, rlAllowedAt, ticks, users, tenants,
                   sessions, nextToken, procs, budget, env, aes, userApiKey>>
    /\ verified' = NoVerify

\* one call of a verifier, or one request to a protected endpoint
Verification(fn, token, result, status) ==
    /\ verified' = [fn |-> fn, token |-> token, at |-> now, result |-> result,
                    status |-> status, preReset |-> IssuedBeforeReset(token)]
    /\ done' = NoDone
    /\ UNCHANGED <<now, store, cfg, rlLast, rlWin, rlAllowedAt, ticks, users, tenants,
                   sessions, nextToken, procs, budget, env, aes, userApiKey, page,
                   localStorage, hist>>

VerifyAccess(token) ==
    Verification("verifyAccessToken", token, verifyAccessToken(token, now), 0)

VerifyRefresh(token) ==
    Verification("verifyRefreshToken", token, verifyRefreshToken(token, now), 0)

\* GET /api/api-keys with Authorization: Bearer token
ApiKeysGet(token) ==
    LET payload == verifyAccessToken(token, now) IN
    Verification("GET /api/api-keys", token, payload,
                 IF payload = NoPayload THEN 401 ELSE 200)

InitSession ==
    /\ ClientEmpty
    /\ now = 0
    /\ store = [k \in Keys |-> NoRecord]
    /\ cfg = RATE_LIMITS.LOGIN
    /\ rlLast = NoCall
    /\ rlWin = [k \in Keys |-> NoWindow]
    /\ rlAllowedAt = [k \in Keys |-> <<>>]
    /\ ticks = 0
    /\ users = Registered
    /\ tenants = {NewTenant(Registered[i]) : i \in DOMAIN Registered}
    /\ sessions = {}
    /\ nextToken = 0
    /\ procs = [p \in Procs |-> IdleProc]
    /\ done = NoDone
    /\ budget = [r \in Actions |->
                    CASE r = "login" -> MaxSessionLogins
                      [] r \in {"forgot-password", "reset-password"} -> 1
                      [] OTHER -> 0]

NextSession ==
    \/ \E p \in Procs, h \in RequestHeaders, b \in LoginBodiesSession : LoginBegin(p, h, b)
    \/ \E p \in Procs : LoginFind(p)
    \/ \E p \in Procs : LoginVerify(p)
    \/ \E p \in Procs : LoginSession(p)
    \/ StoreTokens
    \/ handleLogout
    \/ \E p \in Procs, h \in RequestHeaders, b \in ForgotBodiesSession : ForgotBegin(p, h, b)
    \/ \E p \in Procs : ForgotFind(p)
    \/ \E p \in Procs : ForgotSave(p)
    \/ \E p \in Procs : ForgotMail(p, TRUE)
    \/ \E p \in Procs, h \in RequestHeaders, b \in ResetBodiesSession : ResetBegin(p, h, b)
    \/ \E p \in Procs : ResetFind(p)
    \/ \E p \in Procs : ResetUpdate(p)
    \/ \E p \in Procs : ResetSessions(p)
    \/ \E token \in Presentable : VerifyAccess(token)
    \/ \E token \in Presentable : VerifyRefresh(token)
    \/ \E token \in Presentable : ApiKeysGet(token)
    \/ \E d \in TickStepsSession : Tick(d)

SpecSession == InitSession /\ [][NextSession]_vars

----------------------------------------------------------------------------
(* Claims about sessions and tokens, under SpecSession *)

\* C11: after a successful password reset for user U, a refresh token issued to
\* U before the reset is rejected at verification: verifyRefreshToken does not
\* return its payload, though it is signed with the refresh secret and not expired.
C11_PreResetRefreshRejected ==
    (/\ verified.fn = "verifyRefreshToken"
     /\ verified.preReset
     /\ verified.token.kind = "refresh") => verified.result = NoPayload

\* C18: access tokens are not revocable.  After a password reset has deleted
\* the sessions of user U, an access token issued to U before the reset is still
\* accepted by verifyAccessToken and by GET /api/api-keys (200) until 15
\* minutes after it was issued, and rejected (null, 401) from then on.
C18_AccessTokenOutlivesReset ==
    (/\ verified.fn \in {"verifyAccessToken", "GET /api/api-keys"}
     /\ verified.preReset
     /\ verified.token.kind = "access") =>
        IF verified.at \div 1000 < verified.token.iat + ACCESS_EXPIRY_S
        THEN /\ verified.result = [userId |-> verified.token.userId,
                                   email |-> verified.token.email,
                                   iat |-> verified.token.iat,
                                   exp |-> verified.token.exp]
             /\ verified.fn = "GET /api/api-keys" => verified.status = 200
        ELSE /\ verified.result = NoPayload
             /\ verified.fn = "GET /api/api-keys" => verified.status = 401

\* C18 witness: the reset left the user without a session row, and the
\* protected endpoint still serves the access token issued before it.
C18_Witness ==
    /\ verified.fn = "GET /api/api-keys"
    /\ verified.preReset
    /\ verified.token.kind = "access"
    /\ verified.status = 200
    /\ verified.at > 0
    /\ \A x \in sessions : x.userId # verified.token.userId
    /\ users[verified.token.userId].passwordHash = hashPassword("Xyz98765")

\* the same token, 15 minutes after it was issued
C18_WitnessExpired ==
    /\ verified.fn = "GET /api/api-keys"
    /\ verified.preReset
    /\ verified.token.kind = "access"
    /\ verified.status = 401
    /\ verified.at = (verified.token.iat + ACCESS_EXPIRY_S) * 1000

\* C19: logout is a revocation: once a user has logged out, no session row
\* for the refresh token they held remains in the session store.
C19_LogoutDeletesSession ==
    \A token \in hist.loggedOut : ~SessionTokenTaken(sessions, token)

----------------------------------------------------------------------------
(* SpecJwt: the token functions of jwt.ts on their own.  The process starts *)
(* with some setting of the two secrets in its environment, signs pairs at  *)
(* the current time, and verifies what a client may present: a token it     *)
(* signed, a string that is no JWT, a token signed with a secret it does    *)
(* not hold.                                                                *)

MaxJwtPairs == 2       \* SpecJwt: generateTokenPair is called at most this often

\* process.env: a variable is unset (""), or set; both may be set to the same value
EnvSecrets == {"", "s1", "s2"}
EnvConfigs ==
    [JWT_ACCESS_SECRET : EnvSecrets, JWT_REFRESH_SECRET : EnvSecrets,
     ENCRYPTION_KEY : {""}]

JwtPayloads == {[userId |-> 1, email |-> "a@x.com"]}

\* the clock's steps: just short of the life of an access token and all of it,
\* just short of the life of a refresh token and all of it
TickStepsJwt ==
    {ACCESS_EXPIRY_S * 1000 - 1, ACCESS_EXPIRY_S * 1000,
     REFRESH_EXPIRY_S * 1000 - 1, REFRESH_EXPIRY_S * 1000}

\* a token with the same header and payload, signed with a secret of the client's
Forged(token) == [token EXCEPT !.secret = "attacker-secret"]

PresentableJwt == Presentable \cup {Forged(t) : t \in Presentable \ {NoJwt}}

SignPair(payload) ==
    /\ Cardinality(hist.issued) < MaxJwtPairs
    /\ hist' = [hist EXCEPT !.issued = @ \cup {generateTokenPair(payload, now)}]
    /\ hist' # hist
    /\ done' = NoDone
    /\ verified' = NoVerify
    /\ UNCHANGED <<now, store, cfg, rlLast, rlWin, rlAllowedAt, ticks, users, tenants,
                   sessions, nextToken, procs, budget, env, aes, userApiKey, page,
                   localStorage>>

InitJwt ==
    /\ env \in EnvConfigs
    /\ aes = NoAes
    /\ userApiKey = NoApiKeys
    /\ page = NoPage
    /\ localStorage = NoTokens
    /\ verified = NoVerify
    /\ hist = NoHist
    /\ now = 0
    /\ store = [k \in Keys |-> NoRecord]
    /\ cfg = RATE_LIMITS.API
    /\ rlLast = NoCall
    /\ rlWin = [k \in Keys |-> NoWindow]
    /\ rlAllowedAt = [k \in Keys |-> <<>>]
    /\ ticks = 0
    /\ users = <<>>
    /\ tenants = {}
    /\ sessions = {}
    /\ nextToken = 0
    /\ procs = [p \in Procs |-> IdleProc]
    /\ done = NoDone
    /\ budget = [r \in Actions |-> 0]

NextJwt ==
    \/ \E payload \in JwtPayloads : SignPair(payload)
    \/ \E token \in PresentableJwt : VerifyAccess(token)
    \/ \E token \in PresentableJwt : VerifyRefresh(token)
    \/ \E token \in PresentableJwt : ApiKeysGet(token)
    \/ \E d \in TickStepsJwt : Tick(d)

SpecJwt == InitJwt /\ [][NextJwt]_vars

----------------------------------------------------------------------------
(* Claims about the token functions, under SpecJwt *)

PayloadOf(token) ==
    [userId |-> token.userId, email |-> token.email, iat |-> token.iat, exp |-> token.exp]

\* the verified token came from the sign function of this class, with this
\* secret, and its life has not passed when it was verified
LiveTokenOf(kind, secret, life) ==
    /\ verified.token.kind = kind
    /\ verified.token.secret = secret
    /\ verified.at \div 1000 < verified.token.iat + life

\* C16: verifyAccessToken returns the payload exactly for the tokens that
\* signAccessToken produced with the access secret and that are less than 15
\* minutes old, and null for every other input; verifyRefreshToken does the
\* same with signRefreshToken, the refresh secret and 7 days.
C16_VerifyExactlyOwnTokens ==
    /\ verified.fn = "verifyAccessToken" =>
          verified.result =
              IF LiveTokenOf("access", ACCESS_SECRET, ACCESS_EXPIRY_S)
              THEN PayloadOf(verified.token) ELSE NoPayload
    /\ verified.fn = "verifyRefreshToken" =>
          verified.result =
              IF LiveTokenOf("refresh", REFRESH_SECRET, REFRESH_EXPIRY_S)
              THEN PayloadOf(verified.token) ELSE NoPayload

\* C17: whatever the two secrets are set to, no token from signRefreshToken is
\* accepted by verifyAccessToken or authenticates a request to a protected
\* endpoint, and no token from signAccessToken is accepted by verifyRefreshToken.
C17_ClassesNotInterchangeable ==
    /\ (verified.fn \in {"verifyAccessToken", "GET /api/api-keys"}
          /\ verified.token.kind = "refresh") =>
             verified.result = NoPayload /\ verified.status # 200
    /\ (verified.fn = "verifyRefreshToken" /\ verified.token.kind = "access") =>
             verified.result = NoPayload

\* what C16 lists, without the other class: a live token of the verifier's own
\* class is returned; no JWT, another secret and a passed exp give null
C16_ListedCases ==
    /\ verified.fn = "verifyAccessToken" =>
          /\ LiveTokenOf("access", ACCESS_SECRET, ACCESS_EXPIRY_S) =>
                verified.result = PayloadOf(verified.token)
          /\ (\/ verified.token = NoJwt
              \/ verified.token.secret # ACCESS_SECRET
              \/ verified.at \div 1000 >= verified.token.exp) =>
                verified.result = NoPayload
    /\ verified.fn = "verifyRefreshToken" =>
          /\ LiveTokenOf("refresh", REFRESH_SECRET, REFRESH_EXPIRY_S) =>
                verified.result = PayloadOf(verified.token)
          /\ (\/ verified.token = NoJwt
              \/ verified.token.secret # REFRESH_SECRET
              \/ verified.at \div 1000 >= verified.token.exp) =>
                verified.result = NoPayload

C16_DistinctSecrets == ACCESS_SECRET # REFRESH_SECRET => C16_VerifyExactlyOwnTokens
C17_DistinctSecrets == ACCESS_SECRET # REFRESH_SECRET => C17_ClassesNotInterchangeable

----------------------------------------------------------------------------
(* Claims about reset tokens, under SpecReset *)

\* C12: a reset token is single use: at most one reset-password request
\* presenting a token value ever succeeds, also when two requests presenting
\* it are processed concurrently; after a success with it a request presenting
\* it is answered 400.
C12_ResetTokenSingleUse ==
    [][\A p \in Procs :
          (At(p, "reset-password", "sessions") /\ done'.resp.status = 200
              /\ procs'[p].pc = "idle") =>
                 procs[p].body.token \notin hist.resetUsed]_vars

----------------------------------------------------------------------------
(* send-otp: src/unnamed/part_008, lines 1-104 *)

SendOtpBegin(p, h, b) ==
    Begin(p, "send-otp", h, b, "Too many requests. Please try again later.")

\* request.json(), parse, findUnique, the emailVerified test, generateOTP (which
\* drew n), getOTPExpiry(10)
SendOtpFind(p, n) ==
    LET me == procs[p]
        user == findUserByEmail(users, toLowerCase(me.body.email))
        looked == [me EXCEPT !.did = @ \cup {"lookup"}, !.user = user] IN
    /\ At(p, "send-otp", "find")
    /\ Step(p, IF ~me.body.json
               THEN Reply(me, 500, "Failed to send verification code. Please try again.")
               ELSE IF ~sendOTPSchema(me.body) THEN Reply(me, 400, "Validation failed")
               ELSE IF user = NoUser THEN Reply(looked, 404, "User not found")
               ELSE IF user.emailVerified THEN Reply(looked, 400, "Email already verified")
               ELSE [looked EXCEPT !.pc = "save",
                        !.newOtp = generateOTP(n),
                        !.newExpiry = getOTPExpiry(OTP_MINUTES, now)])
    /\ Quiet
    /\ UNCHANGED <<users, tenants, sessions, nextToken>>

\* SendOtpSave that leaves a code the user already holds in place
SendOtpSave_KeepsFirst(p) ==
    LET me == procs[p] IN
    /\ At(p, "send-otp", "save")
    /\ users' = IF users[me.user.id].emailVerificationOTP # NoOtp THEN users
                ELSE [users EXCEPT ![me.user.id].emailVerificationOTP = me.newOtp,
                                   ![me.user.id].otpExpiresAt = me.newExpiry]
    /\ Step(p, [me EXCEPT !.pc = "mail", !.did = @ \cup {"userUpdate"}])
    /\ hist' = [hist EXCEPT !.otpIssued = Append(@, <<me.user.id, me.newOtp>>)]
    /\ Calm
    /\ UNCHANGED <<tenants, sessions, nextToken>>

\* prisma.user.update({ emailVerificationOTP, otpExpiresAt })
SendOtpSave(p) ==
    LET me == procs[p] IN
    /\ At(p, "send-otp", "save")
    /\ users' = [users EXCEPT ![me.user.id].emailVerificationOTP = me.newOtp,
                              ![me.user.id].otpExpiresAt = me.newExpiry]
    /\ Step(p, [me EXCEPT !.pc = "mail", !.did = @ \cup {"userUpdate"}])
    /\ hist' = [hist EXCEPT !.otpIssued = Append(@, <<me.user.id, me.newOtp>>)]
    /\ Calm
    /\ UNCHANGED <<tenants, sessions, nextToken>>

\* await sendEmail(...): it resolves, or throws 'Failed to send email'
SendOtpMail(p, sent) ==
    LET me == procs[p] IN
    /\ At(p, "send-otp", "mail")
    /\ Step(p, IF sent THEN Reply(me, 200, "Verification code sent to your email")
               ELSE Reply(me, 500, "Failed to send verification code. Please try again."))
    /\ Quiet
    /\ UNCHANGED <<users, tenants, sessions, nextToken>>

(* verify-otp: src/app/api/auth/verify-otp/route.ts *)

VerifyOtpBegin(p, h, b) ==
    Begin(p, "verify-otp", h, b, "Too many attempts. Please try again later.")

\* request.json(), parse, findUnique, and the four tests on the row
VerifyOtpFind(p) ==
    LET me == procs[p]
        user == findUserByEmail(users, toLowerCase(me.body.email))
        looked == [me EXCEPT !.did = @ \cup {"lookup"}, !.user = user] IN
    /\ At(p, "verify-otp", "find")
    /\ Step(p, IF ~me.body.json
               THEN Reply(me, 500, "Failed to verify code. Please try again.")
               ELSE IF ~verifyOTPSchema(me.body) THEN Reply(me, 400, "Validation failed")
               ELSE IF user = NoUser THEN Reply(looked, 404, "User not found")
               ELSE IF user.emailVerified THEN Reply(looked, 400, "Email already verified")
               ELSE IF user.emailVerificationOTP = NoOtp
                    THEN Reply(looked, 400,
                               "No verification code found. Please request a new one.")
               ELSE IF isExpired(user.otpExpiresAt, now)
                    THEN Reply(looked, 400,
                               "Verification code has expired. Please request a new one.")
               ELSE IF ~verifyOTP(me.body.otp, user.emailVerificationOTP)
                    THEN Reply(looked, 400, "Invalid verification code")
               ELSE [looked EXCEPT !.pc = "update"])
    /\ Quiet
    /\ UNCHANGED <<users, tenants, sessions, nextToken>>

\* VerifyOtpUpdate that sets the flag and leaves the code in the row
VerifyOtpUpdate_KeepsCode(p) ==
    LET me == procs[p] IN
    /\ At(p, "verify-otp", "update")
    /\ users' = [users EXCEPT ![me.user.id].emailVerified = TRUE]
    /\ Step(p, Reply([me EXCEPT !.did = @ \cup {"userUpdate"}], 200,
                     "Email verified successfully!"))
    /\ Quiet
    /\ UNCHANGED <<tenants, sessions, nextToken>>

\* prisma.user.update({ emailVerified: true, emailVerificationOTP: null,
\* otpExpiresAt: null }), the 200 response
VerifyOtpUpdate(p) ==
    LET me == procs[p] IN
    /\ At(p, "verify-otp", "update")
    /\ users' = [users EXCEPT ![me.user.id].emailVerified = TRUE,
                              ![me.user.id].emailVerificationOTP = NoOtp,
                              ![me.user.id].otpExpiresAt = NullTime]
    /\ Step(p, Reply([me EXCEPT !.did = @ \cup {"userUpdate"}], 200,
                     "Email verified successfully!"))
    /\ Quiet
    /\ UNCHANGED <<tenants, sessions, nextToken>>

(* SpecOtp: the one-time secrets of one account: send-otp and verify-otp,   *)
(* forgot-password and reset-password, on the rows two registrations left.  *)

MaxSendOtpCalls == 2     \* SpecOtp: send-otp requests sent
MaxVerifyOtpCalls == 2   \* SpecOtp: verify-otp requests sent
MaxOtpForgotCalls == 2   \* SpecOtp: forgot-password requests sent
MaxOtpResetCalls == 1    \* SpecOtp: reset-password requests sent
MaxOtpRequests == 3      \* SpecOtp: requests sent in all

\* the numbers randomInt draws in the model: the ends of its range
OtpDraws == {OTP_MIN, OTP_MAX - 1}

OtpBody(e, str) == [NoBody EXCEPT !.json = TRUE, !.email = e, !.otp = str]

SendOtpBodies == {Body("A@x.com", "none")}
\* the two codes, and a blank before five digits
VerifyOtpBodies ==
    {OtpBody("A@x.com", generateOTP(n)) : n \in OtpDraws}
        \cup {OtpBody("A@x.com", [text |-> <<"1", "0", "0", "0", "0">>, lead |-> 1, trail |-> 0])}
ForgotBodiesOtp == {Body("A@x.com", "none")}
ResetBodiesOtp ==
    {[NoBody EXCEPT !.json = TRUE, !.password = "Xyz98765", !.token = t] :
        t \in 1..MaxResetTokens}

\* the clock's steps: the life of a code and of a reset token, and just past them
TickStepsOtp ==
    {OTP_MINUTES * 60 * 1000, OTP_MINUTES * 60 * 1000 + 1,
     RESET_TOKEN_MINUTES * 60 * 1000, RESET_TOKEN_MINUTES * 60 * 1000 + 1}

InitOtp ==
    /\ env = NoEnv
    /\ aes = NoAes
    /\ userApiKey = NoApiKeys
    /\ page = NoPage
    /\ localStorage = NoTokens
    /\ verified = NoVerify
    /\ hist = [NoHist EXCEPT !.issued =
                  {PairAt(Registered[i], 0) : i \in DOMAIN Registered}]
    /\ now = 0
    /\ store = [k \in Keys |-> NoRecord]
    /\ cfg = RATE_LIMITS.API
    /\ rlLast = NoCall
    /\ rlWin = [k \in Keys |-> NoWindow]
    /\ rlAllowedAt = [k \in Keys |-> <<>>]
    /\ ticks = 0
    /\ users = Registered
    /\ tenants = {NewTenant(Registered[i]) : i \in DOMAIN Registered}
    /\ sessions = {SessionAt(Registered[i], 0) : i \in DOMAIN Registered}
    /\ nextToken = 0
    /\ procs = [p \in Procs |-> IdleProc]
    /\ done = NoDone
    /\ budget = [r \in Actions |->
                    CASE r = "send-otp" -> MaxSendOtpCalls
                      [] r = "verify-otp" -> MaxVerifyOtpCalls
                      [] r = "forgot-password" -> MaxOtpForgotCalls
                      [] r = "reset-password" -> MaxOtpResetCalls
                      [] OTHER -> 0]

\* the requests sent so far
OtpRequests ==
    (MaxSendOtpCalls - budget["send-otp"]) + (MaxVerifyOtpCalls - budget["verify-otp"])
        + (MaxOtpForgotCalls - budget["forgot-password"])
        + (MaxOtpResetCalls - budget["reset-password"])

NextOtp ==
    \/ \E p \in Procs, h \in RequestHeaders, b \in SendOtpBodies :
          OtpRequests < MaxOtpRequests /\ SendOtpBegin(p, h, b)
    \/ \E p \in Procs, n \in OtpDraws : SendOtpFind(p, n)
    \/ \E p \in Procs : SendOtpSave(p)
    \/ \E p \in Procs, sent \in BOOLEAN : SendOtpMail(p, sent)
    \/ \E p \in Procs, h \in RequestHeaders, b \in VerifyOtpBodies :
          OtpRequests < MaxOtpRequests /\ VerifyOtpBegin(p, h, b)
    \/ \E p \in Procs : VerifyOtpFind(p)
    \/ \E p \in Procs : VerifyOtpUpdate(p)
    \/ \E p \in Procs, h \in RequestHeaders, b \in ForgotBodiesOtp :
          OtpRequests < MaxOtpRequests /\ ForgotBegin(p, h, b)
    \/ \E p \in Procs : ForgotFind(p)
    \/ \E p \in Procs : ForgotSave(p)
    \/ \E p \in Procs : ForgotMail(p, TRUE)
    \/ \E p \in Procs, h \in RequestHeaders, b \in ResetBodiesOtp :
          OtpRequests < MaxOtpRequests /\ ResetBegin(p, h, b)
    \/ \E p \in Procs : ResetFind(p)
    \/ \E p \in Procs : ResetUpdate(p)
    \/ \E p \in Procs : ResetSessions(p)
    \/ \E d \in TickStepsOtp : Tick(d)

SpecOtp == InitOtp /\ [][NextOtp]_vars

----------------------------------------------------------------------------
(* Claims about one-time secrets, under SpecOtp *)

\* the reset token (code) most recently saved for user i, or none
LastReset(i) ==
    LET at == {j \in DOMAIN hist.resetIssued : hist.resetIssued[j][1] = i} IN
    IF at = {} THEN NoToken
    ELSE hist.resetIssued[CHOOSE j \in at : \A k \in at : k <= j][2]
LastOtp(i) ==
    LET at == {j \in DOMAIN hist.otpIssued : hist.otpIssued[j][1] = i} IN
    IF at = {} THEN NoOtp
    ELSE hist.otpIssued[CHOOSE j \in at : \A k \in at : k <= j][2]
WasIssued(i, tok) == \E j \in DOMAIN hist.resetIssued : hist.resetIssued[j] = <<i, tok>>

\* C13: a user holds at most one reset token and one OTP: a new
\* forgot-password (send-otp) overwrites the stored token (code) and its
\* expiry, a lookup presenting an earlier token (code) of another value is
\* rejected, and only the one most recently issued is accepted.
C13_OnlyLatestAccepted ==
    /\ [](\A i \in DOMAIN users :
             /\ users[i].resetToken \in {NoToken, LastReset(i)}
             /\ users[i].emailVerificationOTP \in {NoOtp, LastOtp(i)})
    /\ [][\A p \in Procs :
            LET me == procs[p] IN
            /\ (At(p, "forgot-password", "save") /\ procs'[p].pc = "mail") =>
                  /\ users'[me.user.id].resetToken = me.newToken
                  /\ users'[me.user.id].resetTokenExpiresAt = me.newExpiry
                  /\ users[me.user.id].resetToken # me.newToken =>
                        \A i \in DOMAIN users :
                            users'[i].resetToken # users[me.user.id].resetToken
                               \/ users[me.user.id].resetToken = NoToken
            /\ (At(p, "send-otp", "save") /\ procs'[p].pc = "mail") =>
                  /\ users'[me.user.id].emailVerificationOTP = me.newOtp
                  /\ users'[me.user.id].otpExpiresAt = me.newExpiry
            /\ (At(p, "reset-password", "find") /\ procs'[p].pc = "update") =>
                  me.body.token = LastReset(procs'[p].user.id)
            /\ (At(p, "reset-password", "find") /\ procs'[p] # me /\ me.body.json
                  /\ \E i \in DOMAIN users :
                        WasIssued(i, me.body.token) /\ LastReset(i) # me.body.token) =>
                  /\ procs'[p].pc = "idle"
                  /\ done'.resp.status = 400
            /\ (At(p, "verify-otp", "find") /\ procs'[p].pc = "update") =>
                  Str(me.body.otp.text) = LastOtp(procs'[p].user.id)
            /\ (At(p, "verify-otp", "find") /\ procs'[p] # me /\ me.body.json
                  /\ length(me.body.otp) = 6
                  /\ \E i \in DOMAIN users :
                        /\ users[i].email = toLowerCase(me.body.email)
                        /\ LastOtp(i) # NoOtp
                        /\ Str(me.body.otp.text) # LastOtp(i)) =>
                  /\ procs'[p].pc = "idle"
                  /\ done'.resp.status = 400]_vars

\* C13 witness: the first of two reset tokens issued to a user was presented
\* after the second was stored, and refused.
C13_Witness ==
    /\ done.handler = "reset-password"
    /\ done.resp = [status |-> 400, text |-> "Invalid or expired reset token"]
    /\ \E i \in DOMAIN users :
          /\ WasIssued(i, done.body.token)
          /\ LastReset(i) # done.body.token
          /\ users[i].resetToken = LastReset(i)

\* the same for codes: the first of two different codes was refused
C13_WitnessOtp ==
    /\ done.handler = "verify-otp"
    /\ done.resp = [status |-> 400, text |-> "Invalid verification code"]
    /\ Len(hist.otpIssued) = 2
    /\ hist.otpIssued[1] = <<1, done.body.otp>>
    /\ hist.otpIssued[2][2] # done.body.otp

\* C14: a successful verify-otp sets emailVerified and nulls the stored code
\* and its expiry; from then on the flag stays set, a verify-otp for that user
\* is answered 400 (the accepted code is not accepted again) and a send-otp for
\* that user is answered 400 without generating a code.
C14_VerifiedOnce ==
    [][/\ \A i \in DOMAIN users : users[i].emailVerified => users'[i].emailVerified
       /\ \A p \in Procs :
            LET me == procs[p]
                user == findUserByEmail(users, toLowerCase(me.body.email)) IN
            /\ (At(p, "verify-otp", "update") /\ procs'[p] # me) =>
                  /\ done'.handler = "verify-otp"
                  /\ done'.resp.status = 200
                  /\ users' = [users EXCEPT ![me.user.id] =
                        [@ EXCEPT !.emailVerified = TRUE,
                                  !.emailVerificationOTP = NoOtp,
                                  !.otpExpiresAt = NullTime]]
            /\ (/\ me.handler \in {"verify-otp", "send-otp"} /\ me.pc = "find"
                /\ procs'[p] # me
                /\ me.body.json /\ IsEmail(me.body.email)
                /\ me.handler = "verify-otp" => length(me.body.otp) = 6
                /\ user.emailVerified) =>
                  /\ done'.handler = me.handler
                  /\ done'.resp.status = 400
                  /\ done'.newOtp = NoOtp
                  /\ UNCHANGED <<users, tenants, sessions>>
                  /\ hist'.otpIssued = hist.otpIssued]_vars

\* C14 witness: the code a verify-otp accepted is presented again and refused.
C14_Witness ==
    /\ done.handler = "verify-otp"
    /\ done.resp = [status |-> 400, text |-> "Email already verified"]
    /\ users[done.user.id].emailVerified
    /\ users[done.user.id].emailVerificationOTP = NoOtp
    /\ Str(done.body.otp.text) = LastOtp(done.user.id)

C14_WitnessSend ==
    /\ done.handler = "send-otp"
    /\ done.resp = [status |-> 400, text |-> "Email already verified"]
    /\ Len(hist.otpIssued) = 1

Expired(expiresAt) == expiresAt = NullTime \/ expiresAt < now

\* C15: isExpired(expiresAt) is true exactly when expiresAt is null or earlier
\* than the current time; a reset-password or verify-otp whose lookup finds
\* the stored expiry expired does not go on to succeed: it is answered 400 and
\* leaves the password hash, the emailVerified flag, the stored token and code
\* with their expiries and all sessions as they are.
C15_ExpiredNeverAccepted ==
    /\ [](\A i \in DOMAIN users :
             /\ isExpired(users[i].resetTokenExpiresAt, now)
                   <=> Expired(users[i].resetTokenExpiresAt)
             /\ isExpired(users[i].otpExpiresAt, now) <=> Expired(users[i].otpExpiresAt)
             /\ isExpired(NullTime, now)
             /\ isExpired(now - 1000, now)
             /\ ~isExpired(now + 1000, now))
    /\ [][\A p \in Procs :
            LET me == procs[p]
                byToken == findUserByResetToken(users, me.body.token)
                byEmail == findUserByEmail(users, toLowerCase(me.body.email)) IN
            /\ (/\ At(p, "reset-password", "find") /\ procs'[p] # me
                /\ me.body.json /\ resetPasswordSchema(me.body)
                /\ byToken # NoUser
                /\ Expired(byToken.resetTokenExpiresAt)) =>
                  /\ done'.handler = "reset-password"
                  /\ done'.resp.status = 400
                  /\ UNCHANGED <<users, tenants, sessions>>
            /\ (/\ At(p, "verify-otp", "find") /\ procs'[p] # me
                /\ me.body.json /\ verifyOTPSchema(me.body)
                /\ byEmail # NoUser
                /\ Expired(byEmail.otpExpiresAt)) =>
                  /\ done'.handler = "verify-otp"
                  /\ done'.resp.status = 400
                  /\ UNCHANGED <<users, tenants, sessions>>
            /\ (me.handler \in {"reset-password", "verify-otp"} /\ me.pc = "find"
                  /\ procs'[p].pc = "update") =>
                  ~Expired(IF me.handler = "reset-password"
                           THEN byToken.resetTokenExpiresAt
                           ELSE byEmail.otpExpiresAt)]_vars

\* C15 witness: a reset token presented after its expiry was refused, and the
\* row still holds it, the old password hash and the sessions.
C15_Witness ==
    /\ done.handler = "reset-password"
    /\ done.resp = [status |-> 400,
                    text |-> "Reset token has expired. Please request a new one."]
    /\ users[done.user.id].resetToken = done.body.token
    /\ users[done.user.id].resetTokenExpiresAt < now
    /\ users[done.user.id].passwordHash = Registered[done.user.id].passwordHash
    /\ \E x \in sessions : x.userId = done.user.id

C15_WitnessOtp ==
    /\ done.handler = "verify-otp"
    /\ done.resp = [status |-> 400,
                    text |-> "Verification code has expired. Please request a new one."]
    /\ users[done.user.id].emailVerificationOTP = Str(done.body.otp.text)
    /\ ~users[done.user.id].emailVerified

\* the instant of expiry itself: the token is still accepted
C15_WitnessBoundary ==
    /\ \E p \in Procs : At(p, "reset-password", "update")
                          /\ procs[p].user.resetTokenExpiresAt = now
    /\ now > 0

----------------------------------------------------------------------------
(* AES-256-GCM encryption of API keys (jwt.ts).  Strings are sequences of   *)
(* UTF-16 code units, buffers sequences of bytes, a hex string a sequence   *)
(* of nibbles, a base64 string a sequence of sextets with 64 for '='.       *)
(* PBKDF2, the AES keystream and the GCM tag are stood in for by byte       *)
(* arithmetic with the properties the code relies on: the same key, IV and  *)
(* position give the same keystream byte, the cipher is undone by the       *)
(* decipher under the same key and IV, and the tag depends on the key, the  *)
(* IV and every byte of the ciphertext.                                     *)

IV_LENGTH == 16
SALT_LENGTH == 64
TAG_LENGTH == 16
TAG_POSITION == SALT_LENGTH + IV_LENGTH
ENCRYPTED_POSITION == TAG_POSITION + TAG_LENGTH
KEY_LENGTH == 32

\* process.env.ENCRYPTION_KEY || '0'.repeat(64)
ENCRYPTION_KEY ==
    IF env.ENCRYPTION_KEY # "" THEN env.ENCRYPTION_KEY ELSE "0 x 64"

Min(a, b) == IF a < b THEN a ELSE b

RECURSIVE WeightedSum(_, _)
\* the sum of (2i + 1 + k) * bytes[i], k even: every byte counts with an odd weight
WeightedSum(bytes, k) ==
    IF bytes = <<>> THEN 0
    ELSE ((2 * Len(bytes) + 1 + k) * bytes[Len(bytes)]
            + WeightedSum(SubSeq(bytes, 1, Len(bytes) - 1), k)) % 256

IsHighSurrogate(c) == c >= 55296 /\ c <= 56319
IsLowSurrogate(c) == c >= 56320 /\ c <= 57343
REPLACEMENT == <<239, 191, 189>>   \* U+FFFD in UTF-8

RECURSIVE utf8Encode(_)
\* Buffer.from(text, 'utf8'): a surrogate pair is one 4-byte code point, a
\* surrogate without its partner is written as U+FFFD
utf8Encode(text) ==
    IF text = <<>> THEN <<>>
    ELSE LET c == Head(text)
             paired == IsHighSurrogate(c) /\ Len(text) >= 2 /\ IsLowSurrogate(text[2])
             cp == 65536 + (c - 55296) * 1024 + (text[2] - 56320) IN
         IF paired
         THEN <<240 + cp \div 262144, 128 + ((cp \div 4096) % 64),
                128 + ((cp \div 64) % 64), 128 + (cp % 64)>>
                  \o utf8Encode(SubSeq(text, 3, Len(text)))
         ELSE (IF IsHighSurrogate(c) \/ IsLowSurrogate(c) THEN REPLACEMENT
               ELSE IF c < 128 THEN <<c>>
               ELSE IF c < 2048 THEN <<192 + c \div 64, 128 + (c % 64)>>
               ELSE <<224 + c \div 4096, 128 + ((c \div 64) % 64), 128 + (c % 64)>>)
                  \o utf8Encode(Tail(text))

IsContinuation(bytes, i) == i <= Len(bytes) /\ bytes[i] >= 128 /\ bytes[i] < 192

RECURSIVE utf8Decode(_)
\* buffer.toString('utf8'): bytes that are no UTF-8 sequence become U+FFFD
utf8Decode(bytes) ==
    IF bytes = <<>> THEN <<>>
    ELSE LET b == Head(bytes)
             rest(n) == utf8Decode(SubSeq(bytes, n + 1, Len(bytes)))
             cp4 == (b - 240) * 262144 + (bytes[2] - 128) * 4096
                       + (bytes[3] - 128) * 64 + (bytes[4] - 128) IN
         IF b < 128 THEN <<b>> \o rest(1)
         ELSE IF b >= 194 /\ b < 224 /\ IsContinuation(bytes, 2)
              THEN <<(b - 192) * 64 + (bytes[2] - 128)>> \o rest(2)
         ELSE IF b >= 224 /\ b < 240 /\ IsContinuation(bytes, 2) /\ IsContinuation(bytes, 3)
              THEN <<(b - 224) * 4096 + (bytes[2] - 128) * 64 + (bytes[3] - 128)>> \o rest(3)
         ELSE IF b >= 240 /\ b < 245 /\ IsContinuation(bytes, 2) /\ IsContinuation(bytes, 3)
                 /\ IsContinuation(bytes, 4)
              THEN <<55296 + (cp4 - 65536) \div 1024, 56320 + ((cp4 - 65536) % 1024)>> \o rest(4)
         ELSE <<65533>> \o rest(1)

\* buffer.toString('latin1'): one code unit per byte
latin1Decode(bytes) == bytes

\* buffer.toString('hex') and Buffer.from(str, 'hex')
toHex(bytes) ==
    [i \in 1..(2 * Len(bytes)) |->
        IF i % 2 = 1 THEN bytes[(i + 1) \div 2] \div 16 ELSE bytes[i \div 2] % 16]
fromHex(hex) == [i \in 1..(Len(hex) \div 2) |-> hex[2 * i - 1] * 16 + hex[2 * i]]

\* buffer.toString('base64'): three bytes make four sextets, '=' fills the last group
toBase64(bytes) ==
    LET n == Len(bytes)
        byte(i) == IF i <= n THEN bytes[i] ELSE 0
        group(g) == byte(3 * g + 1) * 65536 + byte(3 * g + 2) * 256 + byte(3 * g + 3)
        sextets == (8 * n + 5) \div 6 IN
    [i \in 1..(4 * ((n + 2) \div 3)) |->
        LET g == (i - 1) \div 4
            k == (i - 1) % 4 IN
        IF i > sextets THEN 64
        ELSE CASE k = 0 -> group(g) \div 262144
               [] k = 1 -> (group(g) \div 4096) % 64
               [] k = 2 -> (group(g) \div 64) % 64
               [] OTHER -> group(g) % 64]

\* Buffer.from(str, 'base64')
fromBase64(str) ==
    LET data == SelectSeq(str, LAMBDA x : x # 64)
        sextet(j) == IF j <= Len(data) THEN data[j] ELSE 0 IN
    [i \in 1..((6 * Len(data)) \div 8) |->
        LET g == (i - 1) \div 3
            r == (i - 1) % 3 IN
        CASE r = 0 -> sextet(4 * g + 1) * 4 + sextet(4 * g + 2) \div 16
          [] r = 1 -> (sextet(4 * g + 2) % 16) * 16 + sextet(4 * g + 3) \div 4
          [] OTHER -> (sextet(4 * g + 3) % 4) * 64 + sextet(4 * g + 4)]

\* buffer.subarray(start, end): clamped to the buffer
subarray(buffer, start, end) == SubSeq(buffer, Min(start, Len(buffer)) + 1, Min(end, Len(buffer)))

SecretSeed(secret) == IF secret = "0 x 64" THEN 48 ELSE IF secret = "k1" THEN 107 ELSE 11

\* crypto.pbkdf2Sync(ENCRYPTION_KEY, salt, 100000, 32, 'sha512')
pbkdf2Sync(secret, salt) ==
    [j \in 1..KEY_LENGTH |-> (SecretSeed(secret) * (2 * j + 1) + WeightedSum(salt, 0)) % 256]

Keystream(key, iv, i) == (key[((i - 1) % KEY_LENGTH) + 1] + iv[((i - 1) % Len(iv)) + 1] + i) % 256

\* cipher.update(...) + cipher.final(): GCM is a stream cipher
cipherBytes(key, iv, plain) ==
    [i \in 1..Len(plain) |-> (plain[i] + Keystream(key, iv, i)) % 256]
decipherBytes(key, iv, encrypted) ==
    [i \in 1..Len(encrypted) |-> (encrypted[i] + 256 - Keystream(key, iv, i)) % 256]

\* cipher.getAuthTag()
getAuthTag(key, iv, encrypted) ==
    [j \in 1..TAG_LENGTH |->
        (key[j] + 3 * iv[((j - 1) % Len(iv)) + 1] + WeightedSum(encrypted, 2 * j)) % 256]

\* the values crypto.randomBytes(n) returns in the model
randomBytes(n) == {[i \in 1..n |-> 0], [i \in 1..n |-> (7 * i) % 256]}

encrypt(text, salt, iv) ==
    LET key == pbkdf2Sync(ENCRYPTION_KEY, salt)
        encrypted == toHex(cipherBytes(key, iv, utf8Encode(text)))
        tag == getAuthTag(key, iv, fromHex(encrypted)) IN
    toBase64(salt \o iv \o tag \o fromHex(encrypted))

\* the tag lengths GCM allows: 32, 64, 96, 104, 112, 120 and 128 bits
ValidTagLengths == {4, 8, 12, 13, 14, 15, 16}

\* decrypt that reads the deciphered bytes as latin1
decrypt_Latin1(encryptedData) ==
    LET buffer == fromBase64(encryptedData)
        salt == subarray(buffer, 0, SALT_LENGTH)
        iv == subarray(buffer, SALT_LENGTH, TAG_POSITION)
        tag == subarray(buffer, TAG_POSITION, ENCRYPTED_POSITION)
        encrypted == subarray(buffer, ENCRYPTED_POSITION, Len(buffer))
        key == pbkdf2Sync(ENCRYPTION_KEY, salt) IN
    IF \/ iv = <<>>
       \/ Len(tag) \notin ValidTagLengths
       \/ tag # SubSeq(getAuthTag(key, iv, encrypted), 1, Len(tag))
    THEN [threw |-> TRUE, text |-> <<>>]
    ELSE [threw |-> FALSE,
          text |-> latin1Decode(decipherBytes(key, iv, fromHex(toHex(encrypted))))]

\* createDecipheriv throws on an empty IV; setAuthTag, with no authTagLength
\* given to createDecipheriv, throws on a tag whose length is none of the GCM
\* tag lengths; final() throws when the tag, as long as it is, does not verify
decrypt(encryptedData) ==
    LET buffer == fromBase64(encryptedData)
        salt == subarray(buffer, 0, SALT_LENGTH)
        iv == subarray(buffer, SALT_LENGTH, TAG_POSITION)
        tag == subarray(buffer, TAG_POSITION, ENCRYPTED_POSITION)
        encrypted == subarray(buffer, ENCRYPTED_POSITION, Len(buffer))
        key == pbkdf2Sync(ENCRYPTION_KEY, salt) IN
    IF \/ iv = <<>>
       \/ Len(tag) \notin ValidTagLengths
       \/ tag # SubSeq(getAuthTag(key, iv, encrypted), 1, Len(tag))
    THEN [threw |-> TRUE, text |-> <<>>]
    ELSE [threw |-> FALSE,
          text |-> utf8Decode(decipherBytes(key, iv, fromHex(toHex(encrypted))))]

----------------------------------------------------------------------------
(* SpecAes: a string is encrypted with some salt and IV, and the result     *)
(* decrypted.                                                               *)

MaxTextLen == 3        \* SpecAes: plaintexts have at most this many code units

\* 'a', U+00E9, U+20AC, and the two halves of U+1F600
CodeUnits == {97, 233, 8364, 55357, 56832}

RECURSIVE Strings(_)
Strings(n) ==
    IF n = 0 THEN {<<>>}
    ELSE Strings(n - 1) \cup {Append(str, c) : str \in Strings(n - 1), c \in CodeUnits}

Plaintexts == Strings(MaxTextLen)

AesUnchanged ==
    /\ UNCHANGED <<now, store, cfg, rlLast, rlWin, rlAllowedAt, ticks, users, tenants,
                   sessions, nextToken, procs, done, budget, env, localStorage,
                   userApiKey, page, verified, hist>>

Encrypt(salt, iv) ==
    /\ aes.pc = "text"
    /\ aes' = [aes EXCEPT !.pc = "encrypted",
                          !.encryptedData = encrypt(aes.text, salt, iv)]
    /\ AesUnchanged

Decrypt ==
    /\ aes.pc \in {"encrypted", "tampered"}
    /\ aes' = [aes EXCEPT !.pc = "decrypted", !.out = decrypt(aes.encryptedData)]
    /\ AesUnchanged

InitAes ==
    /\ env \in [JWT_ACCESS_SECRET : {""}, JWT_REFRESH_SECRET : {""},
                ENCRYPTION_KEY : {"", "k1"}]
    /\ aes \in {[NoAes EXCEPT !.pc = "text", !.text = text] : text \in Plaintexts}
    /\ userApiKey = NoApiKeys
    /\ page = NoPage
    /\ localStorage = NoTokens
    /\ verified = NoVerify
    /\ hist = NoHist
    /\ now = 0
    /\ store = [k \in Keys |-> NoRecord]
    /\ cfg = RATE_LIMITS.API
    /\ rlLast = NoCall
    /\ rlWin = [k \in Keys |-> NoWindow]
    /\ rlAllowedAt = [k \in Keys |-> <<>>]
    /\ ticks = 0
    /\ users = <<>>
    /\ tenants = {}
    /\ sessions = {}
    /\ nextToken = 0
    /\ procs = [p \in Procs |-> IdleProc]
    /\ done = NoDone
    /\ budget = [r \in Actions |-> 0]

NextAes ==
    \/ \E salt \in randomBytes(SALT_LENGTH), iv \in randomBytes(IV_LENGTH) : Encrypt(salt, iv)
    \/ Decrypt

SpecAes == InitAes /\ [][NextAes]_vars

----------------------------------------------------------------------------
(* SpecTamper: between encrypt and decrypt the stored payload is changed in *)
(* one byte or cut short, or the process is restarted with another master   *)
(* secret; the payload is then decrypted, or used by getOpenAIClient.       *)

\* prisma.userApiKey.findUnique's row for the payload
ApiKeyRow(encryptedKey) == [found |-> TRUE, encryptedKey |-> encryptedKey, isValid |-> TRUE]

\* try { ...; if (!apiKey || !apiKey.isValid) return null;
\*       return new OpenAI({ apiKey: decrypt(apiKey.encryptedKey) }) } catch { return null }
getOpenAIClient(apiKey) ==
    IF ~apiKey.found \/ ~apiKey.isValid \/ decrypt(apiKey.encryptedKey).threw
    THEN NoClient
    ELSE [client |-> TRUE, apiKey |-> decrypt(apiKey.encryptedKey).text]

TamperTexts == {<<>>, <<97>>, <<233, 8364>>}
\* a byte of each region, and the last byte
TamperPositions ==
    {1, SALT_LENGTH, SALT_LENGTH + 1, TAG_POSITION + 1, ENCRYPTED_POSITION,
     ENCRYPTED_POSITION + 1, ENCRYPTED_POSITION + 5}
TamperDeltas == {1, 128}
\* lengths short of the layout: nothing, the salt cut, no IV, the IV cut, no
\* tag, the tag cut
ShortLengths ==
    {0, SALT_LENGTH - 1, SALT_LENGTH, TAG_POSITION - 1, TAG_POSITION, TAG_POSITION + 4,
     TAG_POSITION + 5, ENCRYPTED_POSITION - 4, ENCRYPTED_POSITION - 1}

TamperByte(i, d) ==
    LET buffer == fromBase64(aes.encryptedData) IN
    /\ aes.pc = "encrypted"
    /\ i <= Len(buffer)
    /\ aes' = [aes EXCEPT !.pc = "tampered", !.tamper = "byte",
                          !.encryptedData = toBase64([buffer EXCEPT ![i] = (@ + d) % 256])]
    /\ AesUnchanged

Truncate(n) ==
    /\ aes.pc = "encrypted"
    /\ aes' = [aes EXCEPT !.pc = "tampered", !.tamper = "short",
                          !.encryptedData =
                              toBase64(SubSeq(fromBase64(aes.encryptedData), 1, n))]
    /\ AesUnchanged

\* the process is started again with another ENCRYPTION_KEY
ChangeSecret(k) ==
    /\ aes.pc = "encrypted"
    /\ k # env.ENCRYPTION_KEY
    /\ env' = [env EXCEPT !.ENCRYPTION_KEY = k]
    /\ aes' = [aes EXCEPT !.pc = "tampered", !.tamper = "secret"]
    /\ UNCHANGED <<now, store, cfg, rlLast, rlWin, rlAllowedAt, ticks, users, tenants,
                   sessions, nextToken, procs, done, budget, localStorage, userApiKey,
                   page, verified, hist>>

GetOpenAIClient ==
    /\ aes.pc \in {"encrypted", "tampered"}
    /\ aes' = [aes EXCEPT !.pc = "client",
                          !.client = getOpenAIClient(ApiKeyRow(aes.encryptedData))]
    /\ AesUnchanged

InitTamper ==
    /\ env \in [JWT_ACCESS_SECRET : {""}, JWT_REFRESH_SECRET : {""},
                ENCRYPTION_KEY : {"", "k1"}]
    /\ aes \in {[NoAes EXCEPT !.pc = "text", !.text = text] : text \in TamperTexts}
    /\ userApiKey = NoApiKeys
    /\ page = NoPage
    /\ localStorage = NoTokens
    /\ verified = NoVerify
    /\ hist = NoHist
    /\ now = 0
    /\ store = [k \in Keys |-> NoRecord]
    /\ cfg = RATE_LIMITS.API
    /\ rlLast = NoCall
    /\ rlWin = [k \in Keys |-> NoWindow]
    /\ rlAllowedAt = [k \in Keys |-> <<>>]
    /\ ticks = 0
    /\ users = <<>>
    /\ tenants = {}
    /\ sessions = {}
    /\ nextToken = 0
    /\ procs = [p \in Procs |-> IdleProc]
    /\ done = NoDone
    /\ budget = [r \in Actions |-> 0]

NextTamper ==
    \/ \E salt \in randomBytes(SALT_LENGTH), iv \in randomBytes(IV_LENGTH) : Encrypt(salt, iv)
    \/ \E i \in TamperPositions, d \in TamperDeltas : TamperByte(i, d)
    \/ \E n \in ShortLengths : Truncate(n)
    \/ \E k \in {"", "k1", "k2"} : ChangeSecret(k)
    \/ Decrypt
    \/ GetOpenAIClient

SpecTamper == InitTamper /\ [][NextTamper]_vars

----------------------------------------------------------------------------
(* Claims about tampered payloads, under SpecTamper *)

\* C21: when a byte of a payload produced by encrypt was changed, or the
\* payload is decrypted under another master secret, or it is too short for
\* the layout, decrypt throws and returns no plaintext, and getOpenAIClient
\* returns null.
C21_TamperedNeverDecrypts ==
    aes.tamper # "none" =>
        /\ aes.pc = "decrypted" => aes.out = [threw |-> TRUE, text |-> <<>>]
        /\ aes.pc = "client" => aes.client = NoClient

\* the part of C21 about a changed byte and about another secret, and about a
\* short payload of a plaintext that is not empty
C21_ChangedByteOrSecret ==
    (aes.tamper \in {"byte", "secret"} \/ (aes.tamper = "short" /\ aes.text # <<>>)) =>
        /\ aes.pc = "decrypted" => aes.out = [threw |-> TRUE, text |-> <<>>]
        /\ aes.pc = "client" => aes.client = NoClient

----------------------------------------------------------------------------
(* SpecOtpGen: generateOTP on its own, over all that randomInt can draw.    *)

GenerateOtp(n) ==
    /\ done = NoDone
    /\ done' = [NoDone EXCEPT !.handler = "generateOTP", !.newOtp = generateOTP(n)]
    /\ UNCHANGED <<now, store, cfg, rlLast, rlWin, rlAllowedAt, ticks, users, tenants,
                   sessions, nextToken, procs, budget, hist>>
    /\ UNCHANGED tokVars
    /\ verified' = NoVerify

InitOtpGen == InitJwt /\ env = NoEnv

NextOtpGen == done = NoDone /\ \E n \in randomInt(OTP_MIN, OTP_MAX) : GenerateOtp(n)

SpecOtpGen == InitOtpGen /\ [][NextOtpGen]_vars

----------------------------------------------------------------------------
(* Claims about generateOTP, under SpecOtpGen *)

DecimalDigits == {"0", "1", "2", "3", "4", "5", "6", "7", "8", "9"}
DigitValue(c) == CHOOSE d \in 0..9 : Digit(d) = c

RECURSIVE parseInt(_)
parseInt(text) ==
    IF text = <<>> THEN 0
    ELSE 10 * parseInt(SubSeq(text, 1, Len(text) - 1)) + DigitValue(text[Len(text)])

\* the values C22 is checked for: the ends of the range, and the one before the last
OtpTargets == {OTP_MIN, OTP_MAX - 1, OTP_MAX}

\* generateOTP can return the six digits of v
CanGenerate(v) ==
    ENABLED (\E n \in randomInt(OTP_MIN, OTP_MAX) :
                 GenerateOtp(n) /\ done'.newOtp = Str(toString(v)))

\* C22: generateOTP returns a string of exactly 6 decimal digits with a value
\* in [100000, 999999], and every value of that range, 999999 included, is a
\* possible result.
C22_OtpRange ==
    /\ done.handler = "generateOTP" =>
          /\ length(done.newOtp) = 6
          /\ Len(done.newOtp.text) = 6
          /\ \A i \in 1..6 : done.newOtp.text[i] \in DecimalDigits
          /\ parseInt(done.newOtp.text) \in OTP_MIN..OTP_MAX
    /\ done = NoDone => \A v \in OtpTargets : CanGenerate(v)

\* the part of C22 that holds: six digits, and every value but the upper end
C22_OtpRangeBelowMax ==
    /\ done.handler = "generateOTP" =>
          /\ length(done.newOtp) = 6
          /\ Len(done.newOtp.text) = 6
          /\ \A i \in 1..6 : done.newOtp.text[i] \in DecimalDigits
          /\ parseInt(done.newOtp.text) \in OTP_MIN..(OTP_MAX - 1)
    /\ done = NoDone => \A v \in OtpTargets \ {OTP_MAX} : CanGenerate(v)
    /\ done = NoDone => ~CanGenerate(OTP_MAX)

----------------------------------------------------------------------------
(* Claims about encryption, under SpecAes *)

\* no surrogate code unit without its partner
RECURSIVE WellFormed(_)
WellFormed(text) ==
    IF text = <<>> THEN TRUE
    ELSE IF IsHighSurrogate(text[1])
         THEN Len(text) >= 2 /\ IsLowSurrogate(text[2]) /\ WellFormed(SubSeq(text, 3, Len(text)))
         ELSE ~IsLowSurrogate(text[1]) /\ WellFormed(Tail(text))

\* text with U+FFFD in the place of every surrogate that has no partner
RECURSIVE toWellFormed(_)
toWellFormed(text) ==
    IF text = <<>> THEN <<>>
    ELSE IF IsHighSurrogate(text[1]) /\ Len(text) >= 2 /\ IsLowSurrogate(text[2])
         THEN <<text[1], text[2]>> \o toWellFormed(SubSeq(text, 3, Len(text)))
         ELSE <<IF IsHighSurrogate(text[1]) \/ IsLowSurrogate(text[1])
                THEN 65533 ELSE text[1]>> \o toWellFormed(Tail(text))

\* C20 as stated: for every plaintext p and every salt and IV chosen inside
\* encrypt, decrypt(encrypt(p)) returns exactly p.
C20_RoundTrip ==
    aes.pc = "decrypted" => ~aes.out.threw /\ aes.out.text = aes.text

\* C20, amended: for every plaintext p without an unpaired surrogate and every
\* salt and IV, decrypt(encrypt(p)) returns exactly p; in any other plaintext
\* each unpaired surrogate comes back as U+FFFD and the rest unchanged.
C20_RoundTripWellFormed ==
    aes.pc = "decrypted" =>
        /\ ~aes.out.threw
        /\ WellFormed(aes.text) => aes.out.text = aes.text
        /\ aes.out.text = toWellFormed(aes.text)

\* C20 witness: a plaintext with a two-byte character and a surrogate pair came back
C20_Witness ==
    /\ aes.pc = "decrypted"
    /\ aes.text = <<233, 55357, 56832>>
    /\ aes.out = [threw |-> FALSE, text |-> aes.text]
    /\ Len(aes.encryptedData) = 4 * ((ENCRYPTED_POSITION + 6 + 2) \div 3)

\* an unpaired high surrogate came back as U+FFFD
C20_WitnessLossy ==
    /\ aes.pc = "decrypted"
    /\ aes.text = <<97, 55357>>
    /\ aes.out = [threw |-> FALSE, text |-> <<97, 65533>>]

----------------------------------------------------------------------------
(* SpecClient: requests that differ in their proxy headers.  The bodies are *)
(* no JSON, so every request ends after its rate-limit call.                *)

MaxClientLogins == 3   \* SpecClient: login requests sent

Entry(text, lead, trail) == [text |-> text, lead |-> lead, trail |-> trail]

\* no header; all three; x-real-ip and x-forwarded-for; x-forwarded-for alone,
\* with blanks around its first entry; x-forwarded-for with a blank first entry
ClientHeaders ==
    {NoHeaders,
     [cf |-> "c1", realIp |-> "c2", forwarded |-> <<Entry("c3", 0, 0), Entry("c2", 1, 0)>>],
     [cf |-> "", realIp |-> "c2", forwarded |-> <<Entry("c3", 0, 0)>>],
     [cf |-> "", realIp |-> "", forwarded |-> <<Entry("c3", 1, 1), Entry("c1", 1, 0)>>],
     [cf |-> "", realIp |-> "", forwarded |-> <<Entry("", 1, 0), Entry("c1", 1, 0)>>]}

InitClient ==
    /\ InitHandlers
    /\ budget = [r \in Actions |->
                    CASE r = "login" -> MaxClientLogins
                      [] r \in {"register", "send-otp"} -> 1
                      [] OTHER -> 0]

NextClient ==
    \/ \E p \in Procs, h \in ClientHeaders : LoginBegin(p, h, BadJson)
    \/ \E p \in Procs : LoginFind(p)
    \/ \E p \in Procs, h \in ClientHeaders : RegisterBegin(p, h, BadJson)
    \/ \E p \in Procs : RegisterFind(p)
    \/ \E p \in Procs, h \in ClientHeaders : SendOtpBegin(p, h, BadJson)
    \/ \E p \in Procs, n \in OtpDraws : SendOtpFind(p, n)

SpecClient == InitClient /\ [][NextClient]_vars

----------------------------------------------------------------------------
(* Claims about the client identifier, under SpecClient *)

\* the identifier C23 describes for a request with headers h
ClientOf(h) ==
    CASE h.cf # "" -> h.cf
      [] h.cf = "" /\ h.realIp # "" -> h.realIp
      [] h.cf = "" /\ h.realIp = "" /\ h.forwarded # <<>> /\ h.forwarded[1].text # "" ->
            h.forwarded[1].text
      [] OTHER -> "unknown"

\* the request that the step from this state to the next one began, if any
Began(rec) ==
    /\ rec.handler # "none"
    /\ \/ \E p \in Procs : procs[p].pc = "idle" /\ procs'[p] = rec /\ rec.pc = "find"
       \/ done' = rec /\ rec.resp.status = 429

\* C23: the client identifier of a request is its cf-connecting-ip header,
\* else x-real-ip, else the first entry of x-forwarded-for without the blanks
\* around it, else 'unknown'; so a request with none of these headers is
\* counted in the entry '<action>:unknown' of its action, and in no other.
C23_ClientIdentifier ==
    /\ [](/\ \A p \in Procs :
               procs[p].pc # "idle" => procs[p].client = ClientOf(procs[p].headers)
          /\ done # NoDone => done.client = ClientOf(done.headers))
    /\ [][\A rec \in {procs'[p] : p \in Procs} \cup {done'} :
            (Began(rec) /\ rec.headers = NoHeaders) =>
               /\ rlWin'[<<rec.handler, "unknown">>].calls = rec.slot
               /\ rlWin'[<<rec.handler, "unknown">>] # rlWin[<<rec.handler, "unknown">>]
               /\ \A k \in Keys \ {<<rec.handler, "unknown">>} :
                     rlWin'[k] = rlWin[k] /\ store'[k] = store[k]]_vars

\* C23 witness: the third login without any of the headers was the third call
\* on login:unknown, while a register without headers was the first on its key.
C23_Witness ==
    /\ done.handler = "login"
    /\ done.headers = NoHeaders
    /\ done.client = "unknown"
    /\ done.slot = 3
    /\ store[<<"login", "unknown">>].count = 3
    /\ store[<<"register", "unknown">>].count = 1

\* the first entry of x-forwarded-for was used, without its blanks
C23_WitnessForwarded ==
    /\ done.headers.forwarded # <<>>
    /\ done.headers.forwarded[1] = Entry("c3", 1, 1)
    /\ done.client = "c3"
    /\ store[<<done.handler, "c3">>].count = 1

\* cf-connecting-ip came before the other two
C23_WitnessCf ==
    /\ done.headers.cf = "c1"
    /\ done.headers.realIp = "c2"
    /\ done.client = "c1"

----------------------------------------------------------------------------
(* SpecApiKeys: add, update and delete API-key requests of two signed-in    *)
(* users, two at a time.                                                    *)

MaxApiKeyRequests == 3     \* SpecApiKeys: requests made in one behaviour

\* two of the thirteen providers of addApiKeySchema
Providers == {"OPENAI", "ANTHROPIC"}

\* a userApiKey row
NoApiKey == [id |-> 0, userId |-> 0, provider |-> "none", encryptedKey |-> <<>>,
             label |-> "none", isValid |-> TRUE]

\* addApiKeySchema.parse(body)
addApiKeySchema(k) == k.provider \in Providers /\ k.apiKey # <<>> /\ k.label # ""

\* updateApiKeySchema.parse(body)
updateApiKeySchema(k) == k.label # "" /\ k.isValid \in {"absent", "true", "false"}

\* findUnique that never finds a row
findUserProvider_Never(rows, userId, provider) == NoApiKey

\* prisma.userApiKey.findUnique({ where: { userId_provider: { userId, provider } } })
findUserProvider(rows, userId, provider) ==
    IF \E r \in rows : r.userId = userId /\ r.provider = provider
    THEN CHOOSE r \in rows : r.userId = userId /\ r.provider = provider
    ELSE NoApiKey

\* prisma.userApiKey.findUnique({ where: { id, userId } })
findOwnKey(rows, id, userId) ==
    IF \E r \in rows : r.id = id /\ r.userId = userId
    THEN CHOOSE r \in rows : r.id = id /\ r.userId = userId
    ELSE NoApiKey

\* the table is unique per (userId, provider): a second row of the pair is refused
UserProviderTaken(rows, userId, provider) ==
    \E r \in rows : r.userId = userId /\ r.provider = provider

\* the 400 body of an add for a provider that has a key
AlreadyHave(provider) ==
    "You already have an API key for " \o provider \o ". Delete the existing one first."

\* The head the three handlers share: the Authorization header, verifyAccessToken,
\* then what the handler does with the verified payload
Authorized(me, k, then) ==
    LET payload == verifyAccessToken(k.bearer, now) IN
    IF k.bearer = NoJwt THEN Reply(me, 401, "Unauthorized")
    ELSE IF payload = NoPayload THEN Reply(me, 401, "Invalid or expired token")
    ELSE then

\* a request arrives: it takes the first free slot and is counted
Arrive(p) ==
    /\ procs[p].pc = "idle"
    /\ p = "p2" => procs["p1"].pc # "idle"
    /\ userApiKey.requests < MaxApiKeyRequests

\* a step of an api-keys handler that leaves the table as rows
KeyStep(rows, created, arrived) ==
    /\ userApiKey' = [rows |-> rows, created |-> created,
                      requests |-> userApiKey.requests + arrived]
    /\ UNCHANGED <<now, store, cfg, rlLast, rlWin, rlAllowedAt, ticks, budget,
                   users, tenants, sessions, nextToken, env, localStorage, aes, page,
                   hist>>
    /\ verified' = NoVerify

(* POST /api/api-keys *)

\* the Authorization header, request.json(), addApiKeySchema.parse, findUnique
AddFind(p, k) ==
    LET me == [IdleProc EXCEPT !.handler = "addApiKey", !.key = k]
        userId == verifyAccessToken(k.bearer, now).userId
        looked == [me EXCEPT !.key.userId = userId, !.did = @ \cup {"lookup"}]
        existingKey == findUserProvider(userApiKey.rows, userId, k.provider) IN
    /\ Arrive(p)
    /\ Step(p, Authorized(me, k,
               IF ~k.json THEN Reply(me, 500, "Failed to add API key")
               ELSE IF ~addApiKeySchema(k) THEN Reply(me, 400, "Validation failed")
               ELSE IF existingKey # NoApiKey
                    THEN Reply(looked, 400, AlreadyHave(k.provider))
               ELSE [looked EXCEPT !.pc = "create"]))
    /\ KeyStep(userApiKey.rows, userApiKey.created, 1)

\* encrypt, prisma.userApiKey.create
AddCreate(p) ==
    LET me == [procs[p] EXCEPT !.did = @ \cup {"create"}]
        k == me.key IN
    /\ At(p, "addApiKey", "create")
    /\ IF UserProviderTaken(userApiKey.rows, k.userId, k.provider)
       THEN /\ Step(p, Reply(me, 500, "Failed to add API key"))
            /\ KeyStep(userApiKey.rows, userApiKey.created, 0)
       ELSE /\ Step(p, Reply(me, 201, "API key added successfully"))
            /\ \E salt \in randomBytes(SALT_LENGTH), iv \in randomBytes(IV_LENGTH) :
                 KeyStep(userApiKey.rows \cup
                           {[id |-> userApiKey.created + 1, userId |-> k.userId,
                             provider |-> k.provider,
                             encryptedKey |-> encrypt(k.apiKey, salt, iv),
                             label |-> k.label, isValid |-> TRUE]},
                         userApiKey.created + 1, 0)

(* PUT /api/api-keys/[id] *)

\* the Authorization header, request.json(), updateApiKeySchema.parse, findUnique
PutFind(p, k) ==
    LET me == [IdleProc EXCEPT !.handler = "updateApiKey", !.key = k]
        userId == verifyAccessToken(k.bearer, now).userId
        looked == [me EXCEPT !.key.userId = userId, !.did = @ \cup {"lookup"}]
        existingKey == findOwnKey(userApiKey.rows, k.id, userId) IN
    /\ Arrive(p)
    /\ Step(p, Authorized(me, k,
               IF ~k.json THEN Reply(me, 500, "Failed to update API key")
               ELSE IF ~updateApiKeySchema(k) THEN Reply(me, 400, "Validation failed")
               ELSE IF existingKey = NoApiKey THEN Reply(looked, 404, "API key not found")
               ELSE [looked EXCEPT !.pc = "update"]))
    /\ KeyStep(userApiKey.rows, userApiKey.created, 1)

\* prisma.userApiKey.update({ where: { id }, data: validatedData }): it throws
\* when the row is gone
PutUpdate(p) ==
    LET me == [procs[p] EXCEPT !.did = @ \cup {"update"}]
        k == me.key
        data(r) == [r EXCEPT !.label = IF k.label = "none" THEN @ ELSE k.label,
                             !.isValid = IF k.isValid = "absent" THEN @
                                         ELSE k.isValid = "true"] IN
    /\ At(p, "updateApiKey", "update")
    /\ IF \E r \in userApiKey.rows : r.id = k.id
       THEN /\ Step(p, Reply(me, 200, "API key updated successfully"))
            /\ KeyStep({IF r.id = k.id THEN data(r) ELSE r : r \in userApiKey.rows},
                       userApiKey.created, 0)
       ELSE /\ Step(p, Reply(me, 500, "Failed to update API key"))
            /\ KeyStep(userApiKey.rows, userApiKey.created, 0)

(* DELETE /api/api-keys/[id] *)

\* the Authorization header, findUnique
DeleteFind(p, k) ==
    LET me == [IdleProc EXCEPT !.handler = "deleteApiKey", !.key = k]
        userId == verifyAccessToken(k.bearer, now).userId
        looked == [me EXCEPT !.key.userId = userId, !.did = @ \cup {"lookup"}]
        existingKey == findOwnKey(userApiKey.rows, k.id, userId) IN
    /\ Arrive(p)
    /\ Step(p, Authorized(me, k,
               IF existingKey = NoApiKey THEN Reply(looked, 404, "API key not found")
               ELSE [looked EXCEPT !.pc = "delete"]))
    /\ KeyStep(userApiKey.rows, userApiKey.created, 1)

\* prisma.userApiKey.delete({ where: { id } }): it throws when the row is gone
DeleteDelete(p) ==
    LET me == [procs[p] EXCEPT !.did = @ \cup {"delete"}]
        k == me.key IN
    /\ At(p, "deleteApiKey", "delete")
    /\ IF \E r \in userApiKey.rows : r.id = k.id
       THEN /\ Step(p, Reply(me, 200, "API key deleted successfully"))
            /\ KeyStep({r \in userApiKey.rows : r.id # k.id}, userApiKey.created, 0)
       ELSE /\ Step(p, Reply(me, 500, "Failed to delete API key"))
            /\ KeyStep(userApiKey.rows, userApiKey.created, 0)

\* the access token a login of the i-th registered user at time 0 returned
AccessOf(i) == PairAt(Registered[i], 0).accessToken

KeyReq(bearer, id, provider, apiKey, label, isValid) ==
    [NoKeyReq EXCEPT !.bearer = bearer, !.json = TRUE, !.id = id, !.provider = provider,
                     !.apiKey = apiKey, !.label = label, !.isValid = isValid]

\* no Authorization header, and a refresh token sent as the bearer
NoBearer == NoJwt
WrongBearer == PairAt(Registered[1], 0).refreshToken

AddRequests ==
    {KeyReq(AccessOf(1), 0, "OPENAI", <<97>>, "none", "absent"),
     KeyReq(AccessOf(1), 0, "ANTHROPIC", <<97>>, "work", "absent"),
     KeyReq(AccessOf(2), 0, "OPENAI", <<233>>, "none", "absent"),
     KeyReq(AccessOf(1), 0, "OPENAI", <<>>, "none", "absent"),
     KeyReq(AccessOf(1), 0, "MYSPACE", <<97>>, "none", "absent"),
     KeyReq(WrongBearer, 0, "OPENAI", <<97>>, "none", "absent"),
     KeyReq(NoBearer, 0, "OPENAI", <<97>>, "none", "absent"),
     [KeyReq(AccessOf(1), 0, "OPENAI", <<97>>, "none", "absent") EXCEPT !.json = FALSE]}

PutRequests ==
    {KeyReq(AccessOf(u), id, "none", <<>>, "home", "absent") : u \in 1..2, id \in 1..2}
    \cup {KeyReq(AccessOf(1), id, "none", <<>>, "none", "false") : id \in 1..2}
    \cup {KeyReq(AccessOf(1), 1, "none", <<>>, "none", "yes"),
          KeyReq(AccessOf(1), 1, "none", <<>>, "", "absent"),
          KeyReq(NoBearer, 1, "none", <<>>, "home", "absent"),
          [KeyReq(AccessOf(1), 1, "none", <<>>, "home", "absent") EXCEPT !.json = FALSE]}

DeleteRequests ==
    {KeyReq(AccessOf(u), id, "none", <<>>, "none", "absent") : u \in 1..2, id \in 1..2}
    \cup {KeyReq(WrongBearer, 1, "none", <<>>, "none", "absent")}

InitApiKeys ==
    /\ InitHandlers
    /\ budget = [r \in Actions |-> 0]

NextApiKeys ==
    \/ \E p \in Procs, k \in AddRequests : AddFind(p, k)
    \/ \E p \in Procs : AddCreate(p)
    \/ \E p \in Procs, k \in PutRequests : PutFind(p, k)
    \/ \E p \in Procs : PutUpdate(p)
    \/ \E p \in Procs, k \in DeleteRequests : DeleteFind(p, k)
    \/ \E p \in Procs : DeleteDelete(p)

SpecApiKeys == InitApiKeys /\ [][NextApiKeys]_vars

(* Claims about the API-key table, under SpecApiKeys *)

\* the rows of (userId, provider) in a table
RowsOf(rows, userId, provider) ==
    {r \in rows : r.userId = userId /\ r.provider = provider}

\* the request that was answered in this step had its lookup find a key
AddFoundKey ==
    /\ done'.handler = "addApiKey"
    /\ "lookup" \in done'.did
    /\ "create" \notin done'.did
    /\ RowsOf(userApiKey.rows, done'.key.userId, done'.key.provider) # {}

\* the request that was answered in this step reached its create with a key stored
AddCreateFoundKey ==
    /\ done'.handler = "addApiKey"
    /\ "create" \in done'.did
    /\ RowsOf(userApiKey.rows, done'.key.userId, done'.key.provider) # {}

ApiKeyStep ==
    LET rows == userApiKey.rows
        after == userApiKey'.rows IN
    \* a (user, provider) that keeps a key keeps its row id and its payload
    /\ \A r \in rows, r2 \in after :
          (r.userId = r2.userId /\ r.provider = r2.provider)
             => (r2.id = r.id /\ r2.encryptedKey = r.encryptedKey)
    \* a payload appears only through an add answered 201 ...
    /\ (\E r2 \in after : RowsOf(rows, r2.userId, r2.provider) = {})
          => (done'.handler = "addApiKey" /\ done'.resp.status = 201)
    \* ... and disappears only through a delete answered 200
    /\ (\E r \in rows : RowsOf(after, r.userId, r.provider) = {})
          => (done'.handler = "deleteApiKey" /\ done'.resp.status = 200)
    \* an add whose lookup finds a key is rejected with 400
    /\ AddFoundKey
          => (/\ done'.resp = [status |-> 400, text |-> AlreadyHave(done'.key.provider)]
              /\ after = rows)
    \* ... and no add goes on to its create past a key its lookup could see
    /\ \A p \in Procs :
          (procs[p].pc = "idle" /\ procs'[p].handler = "addApiKey")
             => RowsOf(rows, procs'[p].key.userId, procs'[p].key.provider) = {}
    \* an add that reaches its create after a concurrent add is rejected too
    /\ AddCreateFoundKey => (done'.resp.status = 500 /\ after = rows)
    \* an update changes nothing but label and isValid of the row it names
    /\ done'.handler = "updateApiKey"
          => (/\ {[r EXCEPT !.label = "none", !.isValid = TRUE] : r \in after}
                    = {[r EXCEPT !.label = "none", !.isValid = TRUE] : r \in rows}
              /\ \A r \in rows : r.id # done'.key.id => r \in after)

\* C24: there is at most one stored API key per (user, provider); an add for a
\* (user, provider) that has a key is rejected (400 when its lookup finds the
\* key) and leaves the stored payload unchanged; an update changes only label
\* and validity; a payload is replaced only by a delete followed by a new add.
C24_OneKeyPerProvider ==
    /\ [](\A r1, r2 \in userApiKey.rows :
             (r1.userId = r2.userId /\ r1.provider = r2.provider) => r1 = r2)
    /\ [][ApiKeyStep]_vars

\* an add was answered 400 while the key of its (user, provider) is stored
C24_Witness ==
    /\ done.handler = "addApiKey"
    /\ done.resp = [status |-> 400, text |-> AlreadyHave("OPENAI")]
    /\ RowsOf(userApiKey.rows, done.key.userId, "OPENAI") # {}

\* two adds of one (user, provider) raced: the second create was refused
C24_WitnessRace ==
    /\ done.handler = "addApiKey"
    /\ "create" \in done.did
    /\ done.resp.status = 500
    /\ Cardinality(RowsOf(userApiKey.rows, done.key.userId, done.key.provider)) = 1

\* an update changed the label of a stored key
C24_WitnessUpdate ==
    /\ done.handler = "updateApiKey"
    /\ done.resp.status = 200
    /\ \E r \in userApiKey.rows : r.id = done.key.id /\ r.label = "home"

\* a key was deleted and a new one added for the same (user, provider)
C24_WitnessReAdd ==
    /\ done.handler = "addApiKey"
    /\ done.resp.status = 201
    /\ userApiKey.created = 2
    /\ \E r \in userApiKey.rows : r.id = 2 /\ r.userId = 1 /\ r.provider = "OPENAI"
    /\ Cardinality(userApiKey.rows) = 1
    /\ userApiKey.requests = 3

----------------------------------------------------------------------------
(* SpecRegister: registrations of a@x.com (in either case) and b@x.com,     *)
(* two at a time, within the register limit.                                *)

MaxRegisterOnly == 3       \* SpecRegister: register requests made in one behaviour

RegisterBodiesOnly ==
    {Body("a@x.com", "Abc12345"), Body("A@x.com", "Xyz98765"),
     Body("b@x.com", "Abc12345"), Body("A@x.com", "weak")}

InitRegister ==
    /\ InitHandlers
    /\ budget = [r \in Actions |-> IF r = "register" THEN MaxRegisterOnly ELSE 0]

NextRegister ==
    \/ \E p \in Procs, h \in RequestHeaders, b \in RegisterBodiesOnly :
          RegisterBegin(p, h, b)
    \/ \E p \in Procs : RegisterFind(p)
    \/ \E p \in Procs : RegisterCreate(p)
    \/ \E p \in Procs : RegisterSession(p)

SpecRegister == InitRegister /\ [][NextRegister]_vars

(* Claims about registration, under SpecRegister *)

\* an account with the lower-cased email e is stored
HasAccount(e) == \E i \in DOMAIN users : users[i].email = e

\* the register request of p takes a step
RegisterMoves(p) == procs[p].handler = "register" /\ procs'[p] # procs[p]

\* nothing is created and no token is issued in this step
NothingCreated ==
    /\ UNCHANGED <<users, tenants, sessions>>
    /\ hist'.issued = hist.issued
    /\ done'.tokens = NoTokens

RegisterStep ==
    \A p \in Procs :
       LET me == procs[p]
           e == toLowerCase(me.body.email) IN
       \* the lookup of a valid registration that finds the account: 400
       /\ (RegisterMoves(p) /\ me.pc = "find" /\ me.body.json
             /\ registerSchema(me.body) /\ HasAccount(e))
             => (/\ done'.resp = [status |-> 400,
                                  text |-> "User with this email already exists"]
                 /\ done'.body = me.body
                 /\ NothingCreated)
       \* the create that finds the account a concurrent registration made
       /\ (RegisterMoves(p) /\ me.pc = "create" /\ HasAccount(e))
             => (done'.resp.status = 500 /\ done'.body = me.body /\ NothingCreated)

\* C25: a registration whose lower-cased email equals an existing account's is
\* rejected ('User with this email already exists' when its lookup finds the
\* account) and creates no user, tenant, membership or session and issues no
\* tokens; there is at most one account per lower-cased email.
C25_OneAccountPerEmail ==
    /\ [](\A i, j \in DOMAIN users :
             toLowerCase(users[i].email) = toLowerCase(users[j].email) => i = j)
    /\ [][RegisterStep]_vars

\* A@x.com was refused because a@x.com is registered
C25_Witness ==
    /\ done.handler = "register"
    /\ done.body.email = "A@x.com"
    /\ done.resp = [status |-> 400, text |-> "User with this email already exists"]
    /\ HasAccount("a@x.com")
    /\ Len(users) = 1

\* two registrations of one email raced: the second create was refused
C25_WitnessRace ==
    /\ done.handler = "register"
    /\ done.resp.status = 500
    /\ "lookup" \in done.did
    /\ HasAccount(toLowerCase(done.body.email))
    /\ Cardinality(tenants) = Len(users)

----------------------------------------------------------------------------
(* SpecDashboard: one browser tab.  a@x.com logs in, the dashboard is       *)
(* loaded and reloaded while the clock runs past the life of the access     *)
(* token, and the user logs out.                                            *)

MaxDashLogins == 2     \* SpecDashboard: login requests sent
MaxDashTicks == 2      \* SpecDashboard: the clock advances at most this often

\* the clock's steps: the life of an access token, and one millisecond
TickStepsDash == {ACCESS_EXPIRY_S * 1000, 1}

\* a stored accessToken that is no JWT
Garbage == [NoJwt EXCEPT !.kind = "garbage"]

\* JSON.parse(atob(accessToken.split('.')[1])): the payload of a JWT, whoever
\* signed it; it throws on a string that is none
decodePayload(token) ==
    IF token.kind \in {"access", "refresh"}
    THEN [threw |-> FALSE,
          payload |-> [userId |-> token.userId, email |-> token.email,
                       iat |-> token.iat, exp |-> token.exp]]
    ELSE [threw |-> TRUE, payload |-> NoPayload]

\* an expiry test that never fires
isTokenExpired_Never(payload, t) == FALSE

\* payload.exp && payload.exp * 1000 < Date.now()
isTokenExpired(payload, t) == payload.exp # 0 /\ payload.exp * 1000 < t

\* the dashboard showing msg, its redirect pending
Redirecting(msg) ==
    [route |-> "/dashboard", user |-> NoPayload, error |-> msg, timer |-> TRUE]

\* loadUser at Date.now() = t with the local storage ls: the page and the local
\* storage it leaves
loadUser(ls, t) ==
    LET decoded == decodePayload(ls.accessToken) IN
    IF ls.accessToken = NoJwt
    THEN [page |-> Redirecting("No authentication token found. Please login."),
          ls |-> [ls EXCEPT !.refreshToken = NoJwt]]
    ELSE IF decoded.threw
    THEN [page |-> Redirecting("Invalid authentication token. Please login again."),
          ls |-> NoTokens]
    ELSE IF isTokenExpired(decoded.payload, t)
    THEN [page |-> Redirecting("Your session has expired. Please login again."),
          ls |-> NoTokens]
    ELSE [page |-> [NoPage EXCEPT !.route = "/dashboard", !.user = decoded.payload],
          ls |-> ls]

\* a step of the browser tab alone
TabStep ==
    /\ done' = NoDone
    /\ UNCHANGED <<store, cfg, rlLast, rlWin, rlAllowedAt, users, tenants, sessions,
                   nextToken, procs, budget, env, aes, userApiKey, hist>>

\* the dashboard is opened or reloaded: the page mounts and runs loadUser
LoadDashboard ==
    LET r == loadUser(localStorage, now) IN
    /\ page' = r.page
    /\ localStorage' = r.ls
    /\ verified' = [NoVerify EXCEPT !.fn = "loadUser", !.token = localStorage.accessToken,
                                    !.at = now, !.result = r.page.user]
    /\ TabStep
    /\ UNCHANGED <<now, ticks>>

\* setTimeout(() => router.push('/login'), ...) fires
RedirectTimer ==
    /\ page.timer
    /\ page' = NoPage
    /\ verified' = NoVerify
    /\ TabStep
    /\ UNCHANGED <<now, ticks, localStorage>>

\* the Logout button, which the dashboard renders once it shows the user
ClickLogout ==
    /\ page.route = "/dashboard"
    /\ page.user # NoPayload
    /\ handleLogout

\* the login page stores the pair of its 200 response
LoginStores ==
    /\ page.route = "/login"
    /\ StoreTokens

\* something other than the application writes a string that is no JWT
SetGarbage ==
    /\ localStorage.accessToken # Garbage
    /\ localStorage' = [localStorage EXCEPT !.accessToken = Garbage]
    /\ verified' = NoVerify
    /\ TabStep
    /\ UNCHANGED <<now, ticks, page>>

DashTick(d) ==
    /\ ticks < MaxDashTicks
    /\ ticks' = ticks + 1
    /\ now' = now + d
    /\ verified' = NoVerify
    /\ TabStep
    /\ UNCHANGED <<localStorage, page>>

InitDashboard ==
    /\ ClientEmpty
    /\ now = 0
    /\ store = [k \in Keys |-> NoRecord]
    /\ cfg = RATE_LIMITS.LOGIN
    /\ rlLast = NoCall
    /\ rlWin = [k \in Keys |-> NoWindow]
    /\ rlAllowedAt = [k \in Keys |-> <<>>]
    /\ ticks = 0
    /\ users = Registered
    /\ tenants = {NewTenant(Registered[i]) : i \in DOMAIN Registered}
    /\ sessions = {}
    /\ nextToken = 0
    /\ procs = [p \in Procs |-> IdleProc]
    /\ done = NoDone
    /\ budget = [r \in Actions |-> IF r = "login" THEN MaxDashLogins ELSE 0]

NextDashboard ==
    \/ \E p \in Procs, h \in RequestHeaders : LoginBegin(p, h, Body("a@x.com", "Abc12345"))
    \/ \E p \in Procs : LoginFind(p)
    \/ \E p \in Procs : LoginVerify(p)
    \/ \E p \in Procs : LoginSession(p)
    \/ LoginStores
    \/ LoadDashboard
    \/ RedirectTimer
    \/ ClickLogout
    \/ SetGarbage
    \/ \E d \in TickStepsDash : DashTick(d)

SpecDashboard == InitDashboard /\ [][NextDashboard]_vars

\* the timer the page set is not held back for ever
SpecDashboardFair == SpecDashboard /\ WF_vars(RedirectTimer)

(* Claims about the dashboard, under SpecDashboardFair *)

\* the stored access token is absent, cannot be decoded, or expired at t
Unusable(token, t) ==
    token = NoJwt \/ token.kind = "garbage" \/ token.exp * 1000 < t

DashboardStep ==
    \* logout leaves neither token in the local storage
    /\ (page.route = "/dashboard" /\ ~page.timer /\ page'.route = "/login")
          => localStorage' = NoTokens
    \* a load that finds no usable token shows no user, removes both tokens and
    \* sets the redirect
    /\ (verified'.fn = "loadUser" /\ Unusable(localStorage.accessToken, now))
          => (/\ page'.user = NoPayload
              /\ page'.timer
              /\ localStorage' = NoTokens)
    \* user data comes on the page only through a load that found a token
    /\ (page'.user # NoPayload /\ page'.user # page.user)
          => (verified'.fn = "loadUser" /\ ~Unusable(localStorage.accessToken, now))
    \* a token comes into the local storage only with a login's 200 response
    /\ (localStorage.accessToken = NoJwt /\ localStorage'.accessToken # NoJwt)
          => \/ /\ done.handler = "login"
                /\ done.resp.status = 200
                /\ localStorage' = done.tokens
             \/ localStorage'.accessToken = Garbage

\* C26: after logout both tokens are absent from the local storage, and a load
\* of the dashboard that finds no access token, an expired one or one that
\* cannot be decoded removes both tokens, shows no user data and ends
\* redirected to /login.
C26_LogoutRedirects ==
    /\ [](page.timer => (page.user = NoPayload /\ page.route = "/dashboard"))
    /\ [][DashboardStep]_vars
    /\ (page.timer ~> page.route = "/login")

\* the dashboard was loaded after a logout: no token, the redirect is pending
C26_Witness ==
    /\ verified.fn = "loadUser"
    /\ verified.token = NoJwt
    /\ hist.loggedOut # {}
    /\ page = Redirecting("No authentication token found. Please login.")
    /\ localStorage = NoTokens

\* the dashboard was loaded with an expired access token
C26_WitnessExpired ==
    /\ verified.fn = "loadUser"
    /\ verified.token.kind = "access"
    /\ verified.token.exp * 1000 < now
    /\ page = Redirecting("Your session has expired. Please login again.")
    /\ localStorage = NoTokens

\* the dashboard was loaded with a stored string that is no JWT
C26_WitnessUndecodable ==
    /\ verified.fn = "loadUser"
    /\ verified.token = Garbage
    /\ page = Redirecting("Invalid authentication token. Please login again.")
    /\ localStorage = NoTokens

\* the dashboard shows the user at the very instant the token expires
C26_WitnessBoundary ==
    /\ verified.fn = "loadUser"
    /\ verified.token.kind = "access"
    /\ verified.token.exp * 1000 = now
    /\ page.user.email = "a@x.com"

----------------------------------------------------------------------------
(* Claims about forgot-password's answer, under SpecReset *)

\* C27: a valid forgot-password request that is not rate limited is answered
\* 200 with the same message whether or not the account exists, also when
\* sending the reset email fails.
C27_ForgotAlwaysSuccess ==
    (/\ done.handler = "forgot-password"
     /\ done.body.json
     /\ forgotPasswordSchema(done.body)
     /\ done.resp.status # 429)
       => done.resp = [status |-> 200, text |-> ForgotMessage]

----------------------------------------------------------------------------
(* SpecKeys: c1 sends logins past the login limit while c2 logs in and c1   *)
(* calls the other five routes.  The bodies are no JSON, so every request   *)
(* ends after its rate-limit call.                                          *)

MaxKeyLogins == 7      \* SpecKeys: login requests sent

FromClient(c) == [NoHeaders EXCEPT !.cf = c]

InitKeys ==
    /\ InitHandlers
    /\ budget = [r \in Actions |-> IF r = "login" THEN MaxKeyLogins ELSE 1]

NextKeys ==
    \/ \E p \in Procs, c \in {"c1", "c2"} : LoginBegin(p, FromClient(c), BadJson)
    \/ \E p \in Procs : LoginFind(p)
    \/ \E p \in Procs : RegisterBegin(p, FromClient("c1"), BadJson)
    \/ \E p \in Procs : RegisterFind(p)
    \/ \E p \in Procs : ForgotBegin(p, FromClient("c1"), BadJson)
    \/ \E p \in Procs : ForgotFind(p)
    \/ \E p \in Procs : ResetBegin(p, FromClient("c1"), BadJson)
    \/ \E p \in Procs : ResetFind(p)
    \/ \E p \in Procs : SendOtpBegin(p, FromClient("c1"), BadJson)
    \/ \E p \in Procs : SendOtpFind(p, OTP_MIN)
    \/ \E p \in Procs : VerifyOtpBegin(p, FromClient("c1"), BadJson)
    \/ \E p \in Procs : VerifyOtpFind(p)

SpecKeys == InitKeys /\ [][NextKeys]_vars

(* Claims about the keys of the limiter, under SpecKeys *)

\* the entry of key k holds fewer calls than the limit of its action allows
UnderLimit(k) ==
    store[k] = NoRecord \/ store[k].count < RateLimitOf(k[1]).maxRequests

KeysStep ==
    /\ \A rec \in {procs'[p] : p \in Procs} \cup {done'} :
          Began(rec) =>
             LET k == <<rec.handler, rec.client>> IN
             \* the call leaves the entry of every other key as it was
             /\ \A k2 \in Keys \ {k} : store'[k2] = store[k2]
             /\ store'[k] # store[k]
             \* and whether it is denied depends on its own entry alone
             /\ UnderLimit(k) => rec.resp.status # 429
             /\ rec.resp.status = 429
                   => rlWin'[k].calls > RateLimitOf(rec.handler).maxRequests
    /\ (\A rec \in {procs'[p] : p \in Procs} \cup {done'} : ~Began(rec))
          => store' = store

\* C28: a checkRateLimit call for one key leaves count and resetTime of every
\* other key unchanged, so the exhausted login limit of one client denies
\* neither another client's login nor the same client's requests to the other
\* routes.
C28_KeysIndependent == [][KeysStep]_vars

\* c1's logins are over the limit; a login of c2 was let through
C28_Witness ==
    /\ store[<<"login", "c1">>].count > RATE_LIMITS.LOGIN.maxRequests
    /\ done.handler = "login"
    /\ done.client = "c2"
    /\ done.resp.status = 500
    /\ store[<<"login", "c2">>].count = 1

\* c1's logins are over the limit; c1's requests to the other five routes
\* were let through
C28_WitnessOtherRoutes ==
    /\ store[<<"login", "c1">>].count > RATE_LIMITS.LOGIN.maxRequests
    /\ \A a \in Actions \ {"login"} : store[<<a, "c1">>].count = 1
    /\ done.handler = "verify-otp"
    /\ done.resp.status = 500

\* c1's sixth login was denied
C28_WitnessDenied ==
    /\ done.handler = "login"
    /\ done.client = "c1"
    /\ done.resp.status = 429
    /\ done.slot = RATE_LIMITS.LOGIN.maxRequests + 1

----------------------------------------------------------------------------
(* Claims about the cleanup timer, under SpecRL *)

\* The entry of k had cleanupExpiredRecords never run: every call of a window
\* is counted, and the window ends windowMs after its first call
Uncleaned(k) ==
    IF rlWin[k] = NoWindow THEN NoRecord
    ELSE [count |-> rlWin[k].calls, resetTime |-> rlWin[k].start + cfg.windowMs]

UncleanedStore == [k \in Keys |-> Uncleaned(k)]

CleanupStep ==
    \* the cleanup deletes only entries whose resetTime is earlier than now
    /\ (store' # store /\ rlWin' = rlWin)
          => \A k \in Keys :
                store'[k] # store[k] => (store'[k] = NoRecord /\ store[k].resetTime < now)
    \* a call returns, and leaves, what it would had no cleanup run before it
    /\ \A k \in Keys :
          rlWin'[k] # rlWin[k]
             => LET r == checkRateLimit(UncleanedStore, k, cfg, now) IN
                /\ rlLast'.key = k
                /\ rlLast'.result = r.result
                /\ store'[k] = r.store[k]

\* C29: cleanupExpiredRecords deletes only entries whose resetTime is earlier
\* than now, never the entry of an open window, and every later checkRateLimit
\* call returns what it would have returned had the cleanup not run.
C29_CleanupInvisible ==
    /\ [](\A k \in Keys :
             \/ store[k] = Uncleaned(k)
             \/ store[k] = NoRecord /\ Uncleaned(k).resetTime < now)
    /\ [][CleanupStep]_vars

\* the cleanup deleted the entry of an ended window and kept that of an open one
C29_Witness ==
    /\ store[<<"login", "c1">>] = NoRecord
    /\ Uncleaned(<<"login", "c1">>) # NoRecord
    /\ store[<<"login", "unknown">>] # NoRecord
    /\ store[<<"login", "unknown">>].resetTime >= now

\* a call was made after the cleanup had deleted an entry, on a key without one
C29_WitnessCallAfter ==
    /\ rlLast.key = <<"login", "c1">>
    /\ rlLast.at > cfg.windowMs
    /\ rlLast.before = NoRecord
    /\ rlLast.result.allowed
    /\ store[<<"login", "unknown">>] = NoRecord
    /\ Uncleaned(<<"login", "unknown">>) # NoRecord

----------------------------------------------------------------------------
(* SpecVerify: a@x.com is sent a code; verify-otp requests, two at a time   *)
(* and past the limit, carry that code, another one, a code too short, no   *)
(* JSON, or the email of no account, before and after the code expires.     *)

MaxVerifyCalls == 6    \* SpecVerify: verify-otp requests sent

VerifyBodies ==
    {OtpBody("A@x.com", generateOTP(OTP_MIN)),
     OtpBody("A@x.com", generateOTP(OTP_MAX - 1)),
     OtpBody("A@x.com", [text |-> <<"1", "0", "0", "0", "0">>, lead |-> 0, trail |-> 0]),
     OtpBody("c@x.com", generateOTP(OTP_MIN)),
     BadJson}

InitVerify ==
    /\ ClientEmpty
    /\ now = 0
    /\ store = [k \in Keys |-> NoRecord]
    /\ cfg = RATE_LIMITS.LOGIN
    /\ rlLast = NoCall
    /\ rlWin = [k \in Keys |-> NoWindow]
    /\ rlAllowedAt = [k \in Keys |-> <<>>]
    /\ ticks = 0
    /\ users = Registered
    /\ tenants = {NewTenant(Registered[i]) : i \in DOMAIN Registered}
    /\ sessions = {}
    /\ nextToken = 0
    /\ procs = [p \in Procs |-> IdleProc]
    /\ done = NoDone
    /\ budget = [r \in Actions |->
                    CASE r = "send-otp" -> 1
                      [] r = "verify-otp" -> MaxVerifyCalls
                      [] OTHER -> 0]

NextVerify ==
    \/ \E p \in Procs, h \in RequestHeaders : SendOtpBegin(p, h, Body("A@x.com", "none"))
    \/ \E p \in Procs : SendOtpFind(p, OTP_MIN)
    \/ \E p \in Procs : SendOtpSave(p)
    \/ \E p \in Procs : SendOtpMail(p, TRUE)
    \/ \E p \in Procs, h \in RequestHeaders, b \in VerifyBodies : VerifyOtpBegin(p, h, b)
    \/ \E p \in Procs : VerifyOtpFind(p)
    \/ \E p \in Procs : VerifyOtpUpdate(p)
    \/ Tick(OTP_MINUTES * 60 * 1000 + 1)

SpecVerify == InitVerify /\ [][NextVerify]_vars

(* Claims about verify-otp, under SpecVerify *)

\* what verify-otp guards: the flag, the stored code and its expiry, per user
OtpColumns(us) ==
    [i \in DOMAIN us |-> <<us[i].emailVerified, us[i].emailVerificationOTP,
                           us[i].otpExpiresAt>>]

\* the row holds the code str, and the code has not expired at t
HoldsCode(row, str, t) ==
    /\ row.emailVerificationOTP # NoOtp
    /\ row.emailVerificationOTP.text = str.text
    /\ row.otpExpiresAt # NullTime
    /\ t <= row.otpExpiresAt

VerifyStep ==
    \* the step that answers a verify-otp request with anything but 200 ...
    /\ (done'.handler = "verify-otp" /\ done'.resp.status # 200)
          => OtpColumns(users') = OtpColumns(users)
    \* ... and every earlier step of a verify-otp request write nothing
    /\ \A p \in Procs :
          (procs'[p].handler = "verify-otp" /\ procs'[p] # procs[p])
             => OtpColumns(users') = OtpColumns(users)
    \* a request goes on to its update only with the stored, unexpired code of an
    \* account that is not verified
    /\ \A p \in Procs :
          (procs[p].handler = "verify-otp" /\ procs[p].pc = "find"
             /\ procs'[p].pc = "update")
             => \E i \in DOMAIN users :
                   /\ users[i].email = toLowerCase(procs[p].body.email)
                   /\ ~users[i].emailVerified
                   /\ HoldsCode(users[i], procs[p].body.otp, now)
                   /\ procs'[p].user = users[i]
    \* the flag is set only by the update of such a request, and never cleared
    /\ \A i \in DOMAIN users :
          /\ (~users[i].emailVerified /\ users'[i].emailVerified)
                => /\ done'.handler = "verify-otp"
                   /\ done'.resp.status = 200
                   /\ done'.user.id = i
                   /\ \E p \in Procs : procs[p].pc = "update" /\ procs[p].user = done'.user
          /\ users[i].emailVerified => users'[i].emailVerified

\* C30: a verify-otp request that does not succeed leaves emailVerified, the
\* stored code and its expiry unchanged; emailVerified becomes true only
\* through a request whose lookup found the code it presents, unexpired, and
\* once true it never becomes false.
C30_FailedVerifyChangesNothing == [][VerifyStep]_vars

\* a wrong guess was refused, and the stored code is still there
C30_Witness ==
    /\ done.handler = "verify-otp"
    /\ done.resp = [status |-> 400, text |-> "Invalid verification code"]
    /\ ~users[1].emailVerified
    /\ HoldsCode(users[1], generateOTP(OTP_MIN), now)

\* the sixth request was rate limited, with the stored code still there
C30_WitnessRateLimited ==
    /\ done.handler = "verify-otp"
    /\ done.resp.status = 429
    /\ ~users[1].emailVerified
    /\ users[1].emailVerificationOTP = generateOTP(OTP_MIN)

\* the right code came too late
C30_WitnessExpired ==
    /\ done.handler = "verify-otp"
    /\ done.resp.text = "Verification code has expired. Please request a new one."
    /\ done.body.otp = users[1].emailVerificationOTP
    /\ ~users[1].emailVerified

\* the account was verified, and a further request was refused
C30_WitnessVerified ==
    /\ done.handler = "verify-otp"
    /\ done.resp.text = "Email already verified"
    /\ users[1].emailVerified

\* the requests for no account, with no stored code, and with a body that is
\* not valid were refused
C30_WitnessUnknown == done.handler = "verify-otp" /\ done.resp.status = 404
C30_WitnessNoCode ==
    /\ done.handler = "verify-otp"
    /\ done.resp.text = "No verification code found. Please request a new one."
C30_WitnessInvalid ==
    /\ done.handler = "verify-otp"
    /\ done.resp.text = "Validation failed"

====
